---- MODULE Spec2Model ----
(***************************************************************************)
(* A model of nepse_data_api: the token parser (NepseTokenParser), the     *)
(* payload-id signer (Nepse._get_floorsheet_payload_id), the session       *)
(* (Nepse) and the asynchronous client (AsyncNepse) of                     *)
(* src/nepse_data_api/market.py.                                           *)
(*                                                                         *)
(* The specifications of the module:                                       *)
(*   ParseSpec    one parse_token_response call on a response drawn from   *)
(*                Responses;                                               *)
(*   PayloadSpec  the payload-id arithmetic on a base id, a day and salts; *)
(*   Spec         a Nepse session: construction, authenticate, refresh,    *)
(*                market status, payload id, the clock;                    *)
(*   LazySpec     a Nepse session that may start without credentials:     *)
(*                the places that call authenticate();                     *)
(*   FloorSpec    a Nepse session fetching the floorsheet, with refresh;   *)
(*   TodaySpec    a Nepse session fetching today's prices, with the clock; *)
(*   AsyncSpec    an AsyncNepse client, one call at a time;                *)
(*   TaskSpec     an AsyncNepse client shared by two asyncio tasks, each   *)
(*                step running a task from one await to the next;          *)
(*   LoadSpec     the construction of the token parser on an asset and     *)
(*                its first call;                                          *)
(*   CacheSpec    a Nepse session with a cached endpoint and the clock;    *)
(*   TwoSpec      two Nepse objects of one process;                        *)
(*   PageSpec     the page loop of get_floorsheet, a step per request;     *)
(*   PageLiveSpec PageSpec with a server that answers every request;       *)
(*   DetSpec      a Nepse session and direct calls of its token parser.    *)
(***************************************************************************)
EXTENDS Integers, Sequences, FiniteSets, TLC

VARIABLES
    \* ---- ParseSpec: one call of NepseTokenParser.parse_token_response
    response_data,   \* the argument of the call
    parse_pc,        \* "ready" before the call, "done" after it
    parse_ret,       \* what the call returned or raised, with its locals
    wasm_file,       \* assets/css.wasm as it is on disk
    token_parser,    \* the NepseTokenParser object: self.wasm_module
    \* ---- PayloadSpec: the arithmetic of _get_floorsheet_payload_id
    pay_in,          \* [dummy_id, day, salts]
    pay_pc,
    pay_out,
    \* ---- Spec: one Nepse session
    pc,              \* "new" (inside __init__), "live", "dead" (__init__ raised),
                     \* "async" (an AsyncNepse client)
    access_token,    \* self.access_token
    refresh_token,   \* self.refresh_token
    salts,           \* self.salts
    token_timestamp, \* self.token_timestamp
    cache,           \* self.cache._cache: key -> [value, expires_at]
    security_id_map, \* self.security_id_map (JNull while the attribute is unset)
    ticks,           \* the clock, in ticks of TickSeconds
    last_op,         \* the last operation called on the session and what it did
    other,           \* the attributes of a second Nepse object of the process
    tasks,           \* the asyncio tasks that share the AsyncNepse client: where
                     \* each one is suspended
    parse_log,       \* DetSpec: the direct parser calls on one input, each with
                     \* the salts the session held and the result
    loop             \* PageSpec: the page loop of a running get_floorsheet call

parseVars == <<response_data, parse_pc, parse_ret, wasm_file, token_parser>>
payVars == <<pay_in, pay_pc, pay_out>>
sessVars == <<pc, access_token, refresh_token, salts, token_timestamp, cache,
              security_id_map,
              ticks, last_op, other, tasks, parse_log, loop>>
vars == <<parseVars, payVars, sessVars>>

(***************************************************************************)
(* Bounds of the model.                                                    *)
(***************************************************************************)
MaxSalt == 5
MaxLen == 7

\* F applied to the value of x, with x evaluated once.
Eval(x, F(_)) == CHOOSE y \in {F(v) : v \in {x}} : TRUE

Max(a, b) == IF a >= b THEN a ELSE b
Min(a, b) == IF a <= b THEN a ELSE b

(***************************************************************************)
(* JSON values of a response body. Every value has the same three fields   *)
(* so that any two can be compared: k is the kind, v the number of an      *)
(* "int" (or a "float", in tenths), s the characters of a "str".           *)
(* "absent" stands for a key the body does not hold.                       *)
(***************************************************************************)
JInt(i) == [k |-> "int", v |-> i, s |-> <<>>]
JStr(str) == [k |-> "str", v |-> 0, s |-> str]
JFloat(tenths) == [k |-> "float", v |-> tenths, s |-> <<>>]
JInf == [k |-> "inf", v |-> 0, s |-> <<>>]
JNaN == [k |-> "nan", v |-> 0, s |-> <<>>]
JNull == [k |-> "null", v |-> 0, s |-> <<>>]
JAbsent == [k |-> "absent", v |-> 0, s |-> <<>>]

Digits == <<"0", "1", "2", "3", "4", "5", "6", "7", "8", "9">>
DigitValue(c) == (CHOOSE i \in 1..10 : Digits[i] = c) - 1
IsDigit(c) == \E i \in 1..10 : Digits[i] = c

RECURSIVE StripLeft(_)
StripLeft(str) ==
    IF str # <<>> /\ Head(str) = " " THEN StripLeft(Tail(str)) ELSE str

RECURSIVE StripRight(_)
StripRight(str) ==
    IF str # <<>> /\ str[Len(str)] = " "
    THEN StripRight(SubSeq(str, 1, Len(str) - 1))
    ELSE str

RECURSIVE DecimalValue(_)
DecimalValue(ds) ==
    IF ds = <<>> THEN 0
    ELSE 10 * DecimalValue(SubSeq(ds, 1, Len(ds) - 1)) + DigitValue(ds[Len(ds)])

\* int(x) of Python on a JSON value or a missing key: the integer, or the
\* exception it raises.
\* int(str): blanks around the number are dropped, one sign may lead it,
\* and what is left must be decimal digits.
Unsigned(t) == IF t # <<>> /\ Head(t) \in {"-", "+"} THEN Tail(t) ELSE t

PyIntStr(str) ==
    Eval(StripRight(StripLeft(str)), LAMBDA t :
        IF Unsigned(t) = <<>> \/ \E i \in 1..Len(Unsigned(t)) : ~IsDigit(Unsigned(t)[i])
        THEN [err |-> "ValueError", v |-> 0]
        ELSE [err |-> "none",
              v |-> IF Head(t) = "-" THEN -DecimalValue(Unsigned(t))
                    ELSE DecimalValue(Unsigned(t))])

PyInt(x) ==
    CASE x.k = "absent" -> [err |-> "KeyError", v |-> 0]
      [] x.k = "int" -> [err |-> "none", v |-> x.v]
      [] x.k = "str" -> PyIntStr(x.s)
      [] x.k = "float" ->
            [err |-> "none",
             v |-> IF x.v >= 0 THEN x.v \div 10 ELSE -((-x.v) \div 10)]
      [] x.k = "inf" -> [err |-> "OverflowError", v |-> 0]
      [] x.k = "nan" -> [err |-> "ValueError", v |-> 0]
      [] OTHER -> [err |-> "TypeError", v |-> 0]

SaltKeys == <<"salt1", "salt2", "salt3", "salt4", "salt5">>

(***************************************************************************)
(* The transform module (assets/css.wasm): five exported functions, each   *)
(* taking five integers and returning one. The module is an opaque binary; *)
(* it is modelled as five pure functions, chosen so that the access-token  *)
(* cut points (n, l, o, p, q) range over every 5-tuple of salt values.     *)
(***************************************************************************)
TransformNames == {"cdx", "rdx", "bdx", "ndx", "mdx"}

Transform(name, args) ==
    CASE name = "cdx" -> args[1]
      [] name = "rdx" -> args[3]
      [] name = "bdx" -> args[4]
      [] name = "ndx" -> args[5]
      [] name = "mdx" -> args[2]

\* self.runtime.invocate(self.wasm_module, name, args): a sequence of results
invocate(name, args) == <<Transform(name, args)>>

(***************************************************************************)
(* NepseTokenParser.parse_token_response                                   *)
(***************************************************************************)
\* The try block: int(response_data["salt1"]) .. int(response_data["salt5"]),
\* evaluated in this order; the first exception ends it. KeyError, ValueError
\* and TypeError are re-raised as ValueError; any other exception propagates.
first_bad(r) ==
    CHOOSE i \in 1..5 : r[i].err # "none" /\ \A j \in 1..(i - 1) : r[j].err = "none"

extract_salts(data) ==
    Eval([i \in 1..5 |-> PyInt(data[SaltKeys[i]])], LAMBDA r :
        IF \A i \in 1..5 : r[i].err = "none"
        THEN [err |-> "none", salts |-> [i \in 1..5 |-> r[i].v]]
        ELSE [err |-> IF r[first_bad(r)].err \in {"KeyError", "ValueError", "TypeError"}
                      THEN "ValueError"
                      ELSE r[first_bad(r)].err,
              salts |-> <<>>])

\* The argument lists of the ten transform calls.
n_args(s) == s
l_args_unswapped(s) == <<s[1], s[2], s[3], s[4], s[5]>>
l_args(s) == <<s[1], s[2], s[4], s[3], s[5]>>
o_args(s) == <<s[1], s[2], s[4], s[3], s[5]>>
p_args(s) == <<s[1], s[2], s[4], s[3], s[5]>>
q_args(s) == <<s[1], s[2], s[4], s[3], s[5]>>
salts_reversed(s) == <<s[2], s[1], s[3], s[5], s[4]>>
b_args_swapped(s) == <<s[2], s[1], s[4], s[3], s[5]>>
b_args(s) == <<s[2], s[1], s[3], s[4], s[5]>>
c_args(s) == <<s[2], s[1], s[4], s[3], s[5]>>
d_args(s) == <<s[2], s[1], s[4], s[3], s[5]>>
e_args(s) == <<s[2], s[1], s[4], s[3], s[5]>>

\* The calls in the order the code makes them: <<name, args>>.
transform_calls(s) ==
    << <<"cdx", n_args(s)>>, <<"rdx", l_args(s)>>, <<"bdx", o_args(s)>>,
       <<"ndx", p_args(s)>>, <<"mdx", q_args(s)>>,
       <<"cdx", salts_reversed(s)>>, <<"rdx", b_args(s)>>, <<"bdx", c_args(s)>>,
       <<"ndx", d_args(s)>>, <<"mdx", e_args(s)>> >>

\* token[i:j] of Python: a negative index counts from the end, an index
\* outside the string is clamped, and an empty range gives the empty string.
PySliceUnclamped(str, i, j) ==
    [m \in 1..Max(j - i, 0) |-> IF i + m <= Len(str) /\ i + m >= 1
                               THEN str[i + m] ELSE "?"]
PySlice(str, i, j) ==
    SubSeq(str,
           (IF i < 0 THEN Max(i + Len(str), 0) ELSE Min(i, Len(str))) + 1,
           IF j < 0 THEN Max(j + Len(str), 0) ELSE Min(j, Len(str)))

\* token[i:]
PySliceFrom(str, i) ==
    SubSeq(str, (IF i < 0 THEN Max(i + Len(str), 0) ELSE Min(i, Len(str))) + 1,
           Len(str))

\* A concatenation whose segments start at the cut points, not after them.
reassemble_keeping_cuts(token, c) ==
    PySlice(token, 0, c[1])
    \o PySlice(token, c[1], c[2])
    \o PySlice(token, c[2], c[3])
    \o PySlice(token, c[3], c[4])
    \o PySlice(token, c[4], c[5])
    \o PySliceFrom(token, c[5])

\* A concatenation that stops at the last cut point.
reassemble_five_segments(token, c) ==
    PySlice(token, 0, c[1])
    \o PySlice(token, c[1] + 1, c[2])
    \o PySlice(token, c[2] + 1, c[3])
    \o PySlice(token, c[3] + 1, c[4])
    \o PySlice(token, c[4] + 1, c[5])

\* The six-segment concatenation on cut points c = <<n, l, o, p, q>>.
reassemble(token, c) ==
    PySlice(token, 0, c[1])
    \o PySlice(token, c[1] + 1, c[2])
    \o PySlice(token, c[2] + 1, c[3])
    \o PySlice(token, c[3] + 1, c[4])
    \o PySlice(token, c[4] + 1, c[5])
    \o PySliceFrom(token, c[5] + 1)

\* What a call that raised leaves behind: the exception and the transform
\* calls made before it.
Raised(e, calls) ==
    [err |-> e, access_token |-> <<>>, refresh_token |-> <<>>, salts |-> <<>>,
     calls |-> calls, cuts |-> <<>>, rcuts |-> <<>>]

\* The cut points of the calls: c[1] = <<n, l, o, p, q>>, c[2] = <<a, b, c, d, e>>.
cut_points(calls) ==
    << [i \in 1..5 |-> invocate(calls[i][1], calls[i][2])[1]],
       [i \in 1..5 |-> invocate(calls[i + 5][1], calls[i + 5][2])[1]] >>

\* The function after its try block, on the salts s it extracted.
parse_tokens(data, s) ==
    Eval(transform_calls(s), LAMBDA calls :
    Eval(cut_points(calls), LAMBDA c :
        IF data["accessToken"].k = "absent" \/ data["refreshToken"].k = "absent"
        THEN Raised("KeyError", calls)
        ELSE IF data["accessToken"].k # "str" \/ data["refreshToken"].k # "str"
        THEN Raised("TypeError", calls)
        ELSE [err |-> "none",
              access_token |-> reassemble(data["accessToken"].s, c[1]),
              refresh_token |-> reassemble(data["refreshToken"].s, c[2]),
              salts |-> s,
              calls |-> calls, cuts |-> c[1], rcuts |-> c[2]]))

\* A variant that returns the reordered salts of the refresh-token step.
parse_token_response_reordered(data) ==
    Eval(extract_salts(data), LAMBDA ex :
        IF ex.err # "none" THEN Raised(ex.err, <<>>)
        ELSE Eval(parse_tokens(data, ex.salts), LAMBDA r :
                  IF r.err # "none" THEN r
                  ELSE [r EXCEPT !.salts = salts_reversed(@)]))

\* A variant that keeps the salts the session holds once it holds some.
parse_token_response_stale(data) ==
    Eval(extract_salts(data), LAMBDA ex :
        IF ex.err # "none" THEN Raised(ex.err, <<>>)
        ELSE IF salts.k = "list" /\ Len(salts.s) = 5
        THEN parse_tokens(data, salts.s)
        ELSE parse_tokens(data, ex.salts))

\* The call: its result (err = "none") or the exception it raises, with the
\* transform calls it made and its cut points n, l, o, p, q and a, b, c, d, e.
parse_token_response(data) ==
    Eval(extract_salts(data), LAMBDA ex :
        IF ex.err # "none" THEN Raised(ex.err, <<>>)
        ELSE parse_tokens(data, ex.salts))

(***************************************************************************)
(* The responses of ParseSpec.                                             *)
(***************************************************************************)
Alphabet == <<"a", "b", "c", "d", "e", "f", "g", "h", "i", "j">>
Token(len) == SubSeq(Alphabet, 1, len)

ResponseOf(s, at, rt) ==
    [key \in {"salt1", "salt2", "salt3", "salt4", "salt5",
              "accessToken", "refreshToken"} |->
        CASE key = "salt1" -> s[1]
          [] key = "salt2" -> s[2]
          [] key = "salt3" -> s[3]
          [] key = "salt4" -> s[4]
          [] key = "salt5" -> s[5]
          [] key = "accessToken" -> at
          [] key = "refreshToken" -> rt]

\* Well-formed responses: every salt an integer of 0..MaxSalt, the access
\* token longer or shorter than the largest cut point.
IntResponses ==
    {ResponseOf([i \in 1..5 |-> JInt(s[i])], JStr(Token(len)), JStr(Token(MaxLen - 1))) :
        s \in [1..5 -> 0..MaxSalt], len \in {3, MaxLen}}

\* The forms a salt field takes.
RawProbes ==
    {JInt(2), JStr(<<"1", "0">>), JStr(<<"7">>), JStr(<<" ", "3", " ">>),
     JStr(<<"-", "2">>), JStr(<<"x">>), JStr(<<>>), JStr(<<"1", "x">>),
     JFloat(37), JInf, JNaN, JNull, JAbsent}

BaseSalts == <<JInt(1), JInt(3), JInt(2), JInt(0), JInt(4)>>

ProbeResponses ==
    {ResponseOf([[BaseSalts EXCEPT ![i] = x] EXCEPT ![j] = y], at, rt) :
        i \in 1..5, j \in 1..5, x \in RawProbes, y \in RawProbes,
        at \in {JStr(Token(MaxLen)), JAbsent, JNull},
        rt \in {JStr(Token(MaxLen)), JAbsent}}

Responses == IntResponses \cup ProbeResponses

NoReturn == Raised("pending", <<>>)

\* The asset: whether pywasm can load the file and the functions it exports.
ShippedAsset == [loadable |-> TRUE, exports |-> TransformNames]
Assets ==
    {[loadable |-> FALSE, exports |-> {}]}
    \cup {[loadable |-> TRUE, exports |-> ex] : ex \in SUBSET TransformNames}

\* self.runtime.instance_from_file(str(wasm_path)): the instance of the
\* module with whatever it exports, or the loader's exception.
instance_from_file(file) ==
    IF file.loadable THEN [err |-> "none", exports |-> file.exports]
    ELSE [err |-> "LoadError", exports |-> {}]

NoParser == [state |-> "none", err |-> "none", exports |-> {}]

\* NepseTokenParser.__init__
new_token_parser(file) ==
    Eval(instance_from_file(file), LAMBDA m :
        IF m.err # "none" THEN [state |-> "failed", err |-> m.err, exports |-> {}]
        ELSE [state |-> "built", err |-> "none", exports |-> m.exports])

\* The transform calls made before the first one whose function the module
\* does not export; all of them when it exports every function called.
calls_before_missing(exports, calls) ==
    IF \A i \in 1..Len(calls) : calls[i][1] \in exports THEN calls
    ELSE SubSeq(calls, 1,
                (CHOOSE i \in 1..Len(calls) :
                    /\ calls[i][1] \notin exports
                    /\ \A j \in 1..(i - 1) : calls[j][1] \in exports) - 1)

\* parse_token_response on a parser whose module exports the given functions:
\* runtime.invocate raises at the first function that is absent.
parse_token_response_on(exports, data) ==
    Eval(extract_salts(data), LAMBDA ex :
        IF ex.err # "none" THEN Raised(ex.err, <<>>)
        ELSE Eval(transform_calls(ex.salts), LAMBDA calls :
             IF calls_before_missing(exports, calls) # calls
             THEN Raised("ExportError", calls_before_missing(exports, calls))
             ELSE parse_tokens(data, ex.salts)))

ParserBuilt == wasm_file = ShippedAsset /\ token_parser = new_token_parser(ShippedAsset)

ParseInit ==
    /\ response_data \in Responses
    /\ parse_pc = "ready"
    /\ parse_ret = NoReturn
    /\ ParserBuilt

ParseTokenResponse ==
    /\ parse_pc = "ready"
    /\ parse_ret' = parse_token_response(response_data)
    /\ parse_pc' = "done"
    /\ UNCHANGED <<response_data, wasm_file, token_parser, payVars, sessVars>>

\* ---- the construction of the parser on an asset, and its first calls
LoadResponses ==
    {ResponseOf(BaseSalts, JStr(Token(MaxLen)), JStr(Token(MaxLen - 1))),
     ResponseOf([BaseSalts EXCEPT ![3] = JStr(<<"x">>)],
                JStr(Token(MaxLen)), JStr(Token(MaxLen - 1))),
     ResponseOf(BaseSalts, JAbsent, JStr(Token(MaxLen - 1)))}

LoadInit ==
    /\ response_data \in LoadResponses
    /\ parse_pc = "new"
    /\ parse_ret = NoReturn
    /\ wasm_file \in Assets
    /\ token_parser = NoParser

\* parser = NepseTokenParser()
NewTokenParser ==
    /\ parse_pc = "new"
    /\ token_parser' = new_token_parser(wasm_file)
    /\ parse_pc' = IF token_parser'.state = "built" THEN "ready" ELSE "dead"
    /\ UNCHANGED <<response_data, parse_ret, wasm_file, payVars, sessVars>>

\* parser.parse_token_response(response_data) on the parser that was built
ParseOnModule ==
    /\ parse_pc = "ready"
    /\ token_parser.state = "built"
    /\ parse_ret' = parse_token_response_on(token_parser.exports, response_data)
    /\ parse_pc' = "done"
    /\ UNCHANGED <<response_data, wasm_file, token_parser, payVars, sessVars>>


(***************************************************************************)
(* Nepse._get_floorsheet_payload_id: the arithmetic.                       *)
(***************************************************************************)
DUMMY_DATA ==
    <<147, 117, 239, 143, 157, 312, 161, 612, 512, 804, 411, 527, 170, 511, 421, 667, 764, 621, 301, 106,
      133, 793, 411, 511, 312, 423, 344, 346, 653, 758, 342, 222, 236, 811, 711, 611, 122, 447, 128, 199,
      183, 135, 489, 703, 800, 745, 152, 863, 134, 211, 142, 564, 375, 793, 212, 153, 138, 153, 648, 611,
      151, 649, 318, 143, 117, 756, 119, 141, 717, 113, 112, 146, 162, 660, 693, 261, 362, 354, 251, 641,
      157, 178, 631, 192, 734, 445, 192, 883, 187, 122, 591, 731, 852, 384, 565, 596, 451, 772, 624, 691>>

\* val = DUMMY_DATA[dummy_id % len(DUMMY_DATA)]; the index never leaves the
\* table, so the except branch (val = 147) is not taken.
dummy_val(dummy_id) == DUMMY_DATA[(dummy_id % Len(DUMMY_DATA)) + 1]

\* salt_index = 1 if e % 10 < 4 else 3 (an index from 0)
salt_index_le(e) == IF e % 10 <= 4 THEN 1 ELSE 3
salt_index(e) == IF e % 10 < 4 THEN 1 ELSE 3

\* int(e + self.salts[salt_index] * day - self.salts[salt_index - 1]) on a
\* list of salts s (indexed from 1 here).
payload_id(dummy_id, day, s) ==
    LET e == dummy_val(dummy_id) + dummy_id + 2 * day
        k == salt_index(e)
    IN e + s[k + 1] * day - s[k]

MaxBaseId == 199
MaxDay == 31
PaySalts == {<<100, 200, 300, 400, 500>>, <<1, 3, 2, 0, 4>>, <<5, 4, 3, 2, 1>>}

PayInit ==
    /\ pay_in \in [dummy_id : (-2)..MaxBaseId, day : 1..MaxDay, salts : PaySalts]
    /\ pay_pc = "ready"
    /\ pay_out = 0

ComputePayloadId ==
    /\ pay_pc = "ready"
    /\ pay_out' = payload_id(pay_in.dummy_id, pay_in.day, pay_in.salts)
    /\ pay_pc' = "done"
    /\ UNCHANGED <<pay_in, parseVars, sessVars>>


(***************************************************************************)
(* The Nepse session.                                                      *)
(***************************************************************************)
MaxTicks == 2
MaxPages == 3
TickSeconds == 30
DefaultTtl == 30
MarketStatusTtl == 60
DefaultBaseId == 147

JList(xs) == [k |-> "list", v |-> 0, s |-> xs]

\* time.time()
Now == ticks * TickSeconds

\* "not x" of Python on None, a string or a list
Falsy(x) == x.k = "null" \/ (x.k \in {"str", "list"} /\ x.s = <<>>)

\* The JSON object of an API response: the keys the code reads.
EmptyBody ==
    [id |-> JAbsent, asOf |-> JAbsent, accessToken |-> JAbsent,
     refreshToken |-> JAbsent, serverTime |-> JAbsent, salt |-> JAbsent,
     rows |-> JAbsent]

\* A request the session sent: the endpoint, the token of its Authorization
\* header (JAbsent when it carries none), its JSON body and the access token
\* the session held when it was sent (the header's, when the header is built
\* in the call that sends).
Req(ep, auth, body) == [ep |-> ep, auth |-> auth, body |-> body, held |-> auth]

\* ---- what the server may answer
AuthBodyNames == {"b1", "b2", "bad", "notoken"}

AuthBodyOf(name) ==
    CASE name = "b1" ->
            ResponseOf(<<JInt(1), JInt(6), JInt(3), JInt(2), JInt(5)>>,
                       JStr(Token(MaxLen)), JStr(Token(MaxLen - 1)))
      [] name = "b2" ->
            ResponseOf(<<JStr(<<"2">>), JInt(5), JInt(4), JInt(3), JInt(6)>>,
                       JStr(SubSeq(Alphabet, 2, MaxLen + 1)), JStr(SubSeq(Alphabet, 3, MaxLen + 1)))
      [] name = "bad" ->
            ResponseOf(<<JInt(1), JInt(6), JStr(<<"x">>), JInt(2), JInt(5)>>,
                       JStr(Token(MaxLen)), JStr(Token(MaxLen - 1)))
      [] name = "notoken" ->
            ResponseOf(<<JInt(1), JInt(6), JInt(3), JInt(2), JInt(5)>>,
                       JAbsent, JStr(Token(MaxLen - 1)))

AuthResponses ==
    {[fail |-> "ConnectionError", body |-> "b1"], [fail |-> "HTTPError", body |-> "b1"]}
    \cup {[fail |-> "none", body |-> b] : b \in AuthBodyNames}

StatusResponses ==
    {[fail |-> "HTTPError", body |-> EmptyBody],
     [fail |-> "none", body |-> [EmptyBody EXCEPT !.id = JInt(23)]],
     [fail |-> "none", body |-> [EmptyBody EXCEPT !.asOf = JStr(<<"1", "2">>)]]}

RefreshedToken == JStr(<<"r", "t">>)

RefreshResponses ==
    {[fail |-> "HTTPError", body |-> EmptyBody],
     [fail |-> "ConnectionError", body |-> EmptyBody],
     [fail |-> "none", body |-> EmptyBody],
     [fail |-> "none", body |-> [EmptyBody EXCEPT !.accessToken = RefreshedToken]],
     [fail |-> "none", body |-> [EmptyBody EXCEPT !.accessToken = RefreshedToken,
                                                  !.refreshToken = JStr(<<"n", "r">>)]],
     [fail |-> "none", body |-> [EmptyBody EXCEPT !.accessToken = RefreshedToken,
                                                  !.serverTime = JInt(45500),
                                                  !.salt = JList(<<7, 8, 9, 10, 11>>)]],
     [fail |-> "none", body |-> [EmptyBody EXCEPT !.accessToken = RefreshedToken,
                                                  !.salt = JList(<<7, 8>>)]],
     [fail |-> "none", body |-> [EmptyBody EXCEPT !.accessToken = RefreshedToken,
                                                  !.salt = JNull]]}

Days == {1, 12}

\* ---- CacheManager
CacheKeys ==
    {"market_status", "market_summary", "price_volume", "today_price_live",
     "today_price_D"}
NoEntry == [present |-> FALSE, value |-> EmptyBody, expires_at |-> 0]

\* A cache whose get finds nothing.
cache_get_missing(c, key) == [cache |-> c, hit |-> FALSE, value |-> EmptyBody]

\* A get that still returns the value at the instant it expires.
cache_get_inclusive(c, key) ==
    IF ~c.entries[key].present
    THEN [cache |-> c, hit |-> FALSE, value |-> EmptyBody]
    ELSE IF Now <= c.entries[key].expires_at
    THEN [cache |-> c, hit |-> TRUE, value |-> c.entries[key].value]
    ELSE [cache |-> [c EXCEPT !.entries[key] = NoEntry], hit |-> FALSE,
          value |-> EmptyBody]

\* CacheManager.get: the value when the entry has not expired; an expired
\* entry is deleted.
cache_get(c, key) ==
    IF ~c.entries[key].present
    THEN [cache |-> c, hit |-> FALSE, value |-> EmptyBody]
    ELSE IF Now < c.entries[key].expires_at
    THEN [cache |-> c, hit |-> TRUE, value |-> c.entries[key].value]
    ELSE [cache |-> [c EXCEPT !.entries[key] = NoEntry], hit |-> FALSE,
          value |-> EmptyBody]

\* CacheManager.set: ttl = ttl or self.default_ttl
cache_set(c, key, value, ttl) ==
    [c EXCEPT !.entries[key] =
        [present |-> TRUE, value |-> value,
         expires_at |-> Now + (IF ttl = 0 THEN c.default_ttl ELSE ttl)]]

\* ---- the session while one operation runs: its fields, the requests the
\* operation has sent, the authenticate() calls it has made, the exception
\* it raised (err), the one it caught (caught), the JSON body or number it
\* returns.
Cur ==
    [at |-> access_token, rt |-> refresh_token, salts |-> salts,
     ts |-> token_timestamp, cache |-> cache, sent |-> <<>>, auths |-> 0,
     by |-> <<>>, signed |-> <<>>, sidmap |-> security_id_map,
     err |-> "none", caught |-> "none", body |-> EmptyBody, num |-> 0]

\* An authenticate() that clears the tokens it holds when it fails.
store_tokens_clearing(S, r) ==
    IF r.err # "none" THEN [S EXCEPT !.err = r.err, !.at = JNull, !.rt = JNull]
    ELSE [S EXCEPT !.at = JStr(r.access_token),
                   !.rt = JStr(r.refresh_token),
                   !.salts = JList(r.salts),
                   !.ts = Now]

\* The assignments of authenticate() after parse_token_response returned r.
store_tokens(S, r) ==
    IF r.err # "none" THEN [S EXCEPT !.err = r.err]
    ELSE [S EXCEPT !.at = JStr(r.access_token),
                   !.rt = JStr(r.refresh_token),
                   !.salts = JList(r.salts),
                   !.ts = Now]

\* An authenticate() that asks the token endpoint a second time when the
\* first request fails.
authenticate_retrying(S, ar) ==
    IF ar.fail # "none"
    THEN [S EXCEPT !.sent = @ \o <<Req("prove", JAbsent, JAbsent),
                                   Req("prove", JAbsent, JAbsent)>>,
                   !.auths = @ + 1, !.err = ar.fail]
    ELSE Eval(parse_token_response(AuthBodyOf(ar.body)), LAMBDA r :
              store_tokens([S EXCEPT !.sent = Append(@, Req("prove", JAbsent, JAbsent)),
                                     !.auths = @ + 1], r))

\* Nepse.authenticate: one GET of the token endpoint, answered by ar.
authenticate(S, ar) ==
    Eval([S EXCEPT !.sent = Append(@, Req("prove", JAbsent, JAbsent)),
                   !.auths = @ + 1], LAMBDA S1 :
        IF ar.fail # "none" THEN [S1 EXCEPT !.err = ar.fail]
        ELSE Eval(parse_token_response(AuthBodyOf(ar.body)), LAMBDA r :
                  store_tokens(S1, r)))

\* self.authenticate() called from the place who: "explicit" (the user),
\* "init" (__init__), "headers" (_get_auth_headers), "signer"
\* (_get_floorsheet_payload_id).
authenticate_by(S, ar, who) ==
    authenticate([S EXCEPT !.by = Append(@, who)], ar)

\* A _get_auth_headers that authenticates on every call.
get_auth_headers_always(S, ar) == authenticate_by(S, ar, "headers")

\* A _get_auth_headers that authenticates again once the token is a tick old.
get_auth_headers_expiring(S, ar) ==
    IF Falsy(S.at) \/ Now - S.ts >= TickSeconds
    THEN authenticate_by(S, ar, "headers") ELSE S

\* Nepse._get_auth_headers; the Authorization header it builds is
\* "Salter " + the at field of the result.
get_auth_headers(S, ar) ==
    IF Falsy(S.at) THEN authenticate_by(S, ar, "headers") ELSE S

\* The request of self.session.get / self.session.post once the headers are
\* built (S1): raise_for_status() and response.json().
send(S1, ep, body, resp) ==
    IF S1.err # "none" THEN S1
    ELSE IF resp.fail # "none"
    THEN [S1 EXCEPT !.sent = Append(@, Req(ep, S1.at, body)), !.err = resp.fail]
    ELSE [S1 EXCEPT !.sent = Append(@, Req(ep, S1.at, body)), !.body = resp.body]

\* self.session.get(url, headers=self._get_auth_headers()), raise_for_status()
\* and response.json()
session_get(S, ep, ar, resp) ==
    Eval(get_auth_headers(S, ar), LAMBDA S1 : send(S1, ep, JAbsent, resp))

\* A _cached_get that stores the outcome of a failed request as well.
cached_get_storing_failure(S, key, ep, ttl, ar, resp) ==
    Eval(cache_get(S.cache, key), LAMBDA g :
        IF g.hit THEN [S EXCEPT !.cache = g.cache, !.body = g.value]
        ELSE Eval(session_get([S EXCEPT !.cache = g.cache], ep, ar, resp), LAMBDA S2 :
                  [S2 EXCEPT !.cache = cache_set(S2.cache, key, S2.body, ttl)]))

\* Nepse._cached_get on a session whose cache is enabled
cached_get(S, key, ep, ttl, ar, resp) ==
    Eval(cache_get(S.cache, key), LAMBDA g :
        IF g.hit THEN [S EXCEPT !.cache = g.cache, !.body = g.value]
        ELSE Eval(session_get([S EXCEPT !.cache = g.cache], ep, ar, resp), LAMBDA S2 :
                  IF S2.err # "none" THEN S2
                  ELSE [S2 EXCEPT !.cache = cache_set(S2.cache, key, S2.body, ttl)]))

\* Nepse.get_market_status
get_market_status(S, use_cache, ar, resp) ==
    IF use_cache /\ S.cache.enabled
    THEN cached_get(S, "market_status", "market-open", MarketStatusTtl, ar, resp)
    ELSE session_get(S, "market-open", ar, resp)

\* Nepse.get_market_summary: _cached_get with the default ttl
get_market_summary(S, use_cache, ar, resp) ==
    IF use_cache /\ S.cache.enabled
    THEN cached_get(S, "market_summary", "market-summary", 0, ar, resp)
    ELSE session_get(S, "market-summary", ar, resp)

\* Nepse.clear_cache
clear_cache(S) ==
    IF S.cache.enabled
    THEN [S EXCEPT !.cache.entries = [key \in CacheKeys |-> NoEntry]]
    ELSE S

\* int(status.get('id', 147))
base_id(status) ==
    IF status.id.k = "absent" THEN [err |-> "none", v |-> DefaultBaseId]
    ELSE PyInt(status.id)

\* The end of _get_floorsheet_payload_id, once the salts are ensured (S2).
signed_id(S2, id, day) ==
    IF S2.err # "none" THEN S2
    ELSE IF Len(S2.salts.s) < salt_index(dummy_val(id) + id + 2 * day) + 1
    THEN [S2 EXCEPT !.err = "IndexError"]
    ELSE [S2 EXCEPT !.num = payload_id(id, day, S2.salts.s),
                    !.signed = Append(@, [id |-> id, day |-> day,
                                          num |-> payload_id(id, day, S2.salts.s)])]

\* A signer that leaves authentication to its caller.
ensure_salts_never(S1, ar2) == S1

\* A signer that authenticates before every signature.
ensure_salts_always(S1, ar2) == authenticate_by(S1, ar2, "signer")

\* if not self.salts: self.authenticate()
ensure_salts(S1, ar2) ==
    IF Falsy(S1.salts) THEN authenticate_by(S1, ar2, "signer") ELSE S1

\* Nepse._get_floorsheet_payload_id(company_id, date_obj) with date_obj.day =
\* day; ar1 answers an authenticate() made for the market-status request,
\* sr that request, ar2 the authenticate() made when the salts are unset.
get_floorsheet_payload_id(S, day, ar1, sr, ar2) ==
    Eval(get_market_status(S, TRUE, ar1, sr), LAMBDA S1 :
        IF S1.err # "none" THEN S1
        ELSE Eval(base_id(S1.body), LAMBDA id :
            IF id.err # "none" THEN [S1 EXCEPT !.err = id.err]
            ELSE Eval(ensure_salts(S1, ar2), LAMBDA S2 : signed_id(S2, id.v, day))))

\* A refresh that stores the access token only.
store_refreshed_token_only(S2, td) ==
    IF td = EmptyBody \/ td.accessToken.k = "absent" THEN [S2 EXCEPT !.body = td]
    ELSE [S2 EXCEPT !.at = td.accessToken, !.body = td]

\* A refresh that takes the refresh token from every response.
store_refreshed_taking_refresh_token(S2, td) ==
    IF td = EmptyBody \/ td.accessToken.k = "absent" THEN [S2 EXCEPT !.body = td]
    ELSE [S2 EXCEPT !.at = td.accessToken, !.rt = td.refreshToken,
                    !.salts = IF td.salt.k = "absent" THEN @ ELSE td.salt,
                    !.body = td]

\* The assignments of refresh_auth_token() on the token data td; an
\* exception among them is caught like any other.
store_refreshed(S2, td) ==
    IF td = EmptyBody \/ td.accessToken.k = "absent" THEN [S2 EXCEPT !.body = td]
    ELSE IF td.serverTime.k \notin {"absent", "int"}
    THEN [S2 EXCEPT !.at = td.accessToken, !.caught = "TypeError"]
    ELSE [S2 EXCEPT !.at = td.accessToken,
                    !.ts = IF td.serverTime.k = "absent" THEN @
                           ELSE td.serverTime.v \div 1000,
                    !.salts = IF td.salt.k = "absent" THEN @ ELSE td.salt,
                    !.body = td]

\* A refresh that authenticates anew when its request fails.
refresh_auth_token_fallback(S, ar, rr) ==
    Eval(send(get_auth_headers(S, ar), "refresh-token",
              IF Falsy(S.rt) THEN JAbsent ELSE S.rt,
              [rr EXCEPT !.body = EmptyBody]), LAMBDA S2 :
        IF S2.err # "none"
        THEN authenticate_by([S2 EXCEPT !.caught = S2.err, !.err = "none"],
                             [fail |-> "none", body |-> "b2"], "fallback")
        ELSE [S2 EXCEPT !.at = rr.body.accessToken, !.body = rr.body])

\* Nepse.refresh_auth_token: every exception is caught and {} returned.
refresh_auth_token(S, ar, rr) ==
    Eval(send(get_auth_headers(S, ar), "refresh-token",
              IF Falsy(S.rt) THEN JAbsent ELSE S.rt,
              [rr EXCEPT !.body = EmptyBody]), LAMBDA S2 :
        IF S2.err # "none" THEN [S2 EXCEPT !.caught = S2.err, !.err = "none"]
        ELSE store_refreshed(S2, rr.body))

\* ---- the signed POST requests
\* datetime.now().day: midnight passes at the last tick of the clock.
Today == IF ticks < MaxTicks THEN 20 ELSE 21

\* The date argument of get_today_price and get_floorsheet: None, or the
\* business date D ("%Y-%m-%d", day 5); key is the suffix of the cache key.
NoDate == [key |-> "live", day |-> 0]
DateD == [key |-> "D", day |-> 5]
Dates == {NoDate, DateD}

\* What the server may answer to a today-price POST and to the GET of
\* securityDailyTradeStat/58 (the security ids of the symbol asked for).
\* A 200 answer is the array of rows or, as the last one here, a JSON
\* object (a body without rows).
PostResponses ==
    {[fail |-> "HTTPError", body |-> EmptyBody],
     [fail |-> "none", body |-> [EmptyBody EXCEPT !.rows = JList(<<1>>)]],
     [fail |-> "none", body |-> [EmptyBody EXCEPT !.id = JInt(0)]]}

PriceVolumeResponses ==
    {[fail |-> "HTTPError", body |-> EmptyBody],
     [fail |-> "none", body |-> [EmptyBody EXCEPT !.rows = JList(<<7>>)]],
     [fail |-> "none", body |-> [EmptyBody EXCEPT !.rows = JList(<<>>)]]}

\* What the server may answer to the successive floorsheet pages:
\* floorsheets.totalPages and, page by page, rows, no content, or an error.
PageScripts ==
    {[total |-> 1, pages |-> <<"rows">>],
     [total |-> 3, pages |-> <<"rows", "rows", "rows">>],
     [total |-> 3, pages |-> <<"rows", "fail", "rows">>],
     [total |-> 3, pages |-> <<"empty", "rows", "rows">>]}

Limits == {JNull, JInt(2)}

\* except Exception: print(...); return []
swallowed(S) == [S EXCEPT !.caught = S.err, !.err = "none", !.body = EmptyBody]

\* datetime.strptime(status['asOf'].split('T')[0], "%Y-%m-%d").day; the
\* asOf string is kept by the digits of its day
as_of_day(status) ==
    IF status # EmptyBody /\ status.asOf.k = "str" /\ status.asOf.s # <<>>
       /\ \A i \in 1..Len(status.asOf.s) : IsDigit(status.asOf.s[i])
    THEN DecimalValue(status.asOf.s)
    ELSE Today

\* The payload date of get_today_price: the day it signs with, and the
\* session after the market-status lookup it may need for it.
today_price_date(S, date, ar, sr) ==
    IF date.key # "live" THEN [S |-> S, day |-> date.day]
    ELSE Eval(get_market_status(S, TRUE, ar, sr), LAMBDA S1 :
             IF S1.err # "none"
             THEN [S |-> [S1 EXCEPT !.err = "none"], day |-> Today]
             ELSE [S |-> S1, day |-> as_of_day(S1.body)])

today_price_key(date) ==
    IF date.key = "live" THEN "today_price_live" ELSE "today_price_D"

\* isinstance(data, list), and the [] returned in place of anything else
IsList(data) == data.rows.k = "list"
EmptyList == [EmptyBody EXCEPT !.rows = JList(<<>>)]
list_or_empty(data) == IF IsList(data) THEN data ELSE EmptyList

\* except Exception as e: print(...); return []
returns_empty_list(S) == [swallowed(S) EXCEPT !.body = EmptyList]

\* Nepse.get_today_price(date, size, use_cache); sr1 answers the
\* market-status request made for the payload date, sr2 the signer's, ar an
\* authenticate() of _get_auth_headers, ar3 the signer's, pr the POST. The
\* body of the result is the value the call returns.
get_today_price(S, date, use_cache, ar, sr1, sr2, ar3, pr) ==
    Eval(IF use_cache /\ S.cache.enabled THEN cache_get(S.cache, today_price_key(date))
         ELSE [cache |-> S.cache, hit |-> FALSE, value |-> EmptyBody], LAMBDA g :
    IF g.hit THEN [S EXCEPT !.cache = g.cache, !.body = g.value]
    ELSE Eval(today_price_date([S EXCEPT !.cache = g.cache], date, ar, sr1), LAMBDA d :
         Eval(get_floorsheet_payload_id(d.S, d.day, ar, sr2, ar3), LAMBDA S2 :
         IF S2.err # "none" THEN returns_empty_list(S2)
         ELSE Eval(send(get_auth_headers(S2, ar), "today-price", JInt(S2.num), pr),
                   LAMBDA S3 :
              IF S3.err # "none" THEN returns_empty_list(S3)
              ELSE [S3 EXCEPT !.cache = IF S3.cache.enabled
                                         THEN cache_set(@, today_price_key(date),
                                                        S3.body, 15)
                                         ELSE @,
                              !.body = list_or_empty(S3.body)]))))

\* The security_id_map built from the rows of get_price_volume.
ids_of(data) == IF data.rows.k = "list" THEN data.rows ELSE JList(<<>>)

\* Nepse._ensure_security_ids with get_price_volume(use_cache=True); every
\* exception ends in an empty map.
ensure_security_ids(S, ar, pv) ==
    IF ~Falsy(S.sidmap) THEN S
    ELSE Eval(IF S.cache.enabled
              THEN cached_get(S, "price_volume", "securityDailyTradeStat", 15, ar, pv)
              ELSE session_get(S, "securityDailyTradeStat", ar, pv), LAMBDA S1 :
             IF S1.err # "none" THEN [S1 EXCEPT !.err = "none", !.sidmap = JList(<<>>)]
             ELSE [S1 EXCEPT !.sidmap = ids_of(S1.body)])

\* effective_limit
effective_limit(symbol, limit) ==
    IF limit.k = "null" THEN (IF symbol THEN 0 ELSE 1) ELSE limit.v

\* The while True loop of get_floorsheet from current_top_page = page with
\* pages_fetched = fetched: every POST carries the headers hdr and the
\* payload built before the loop.
RECURSIVE fetch_pages(_, _, _, _, _, _, _)
fetch_pages(S, hdr, payload, script, page, fetched, limit) ==
    IF page + 1 > Len(script.pages) THEN S
    ELSE Eval([S EXCEPT !.sent = Append(@, [Req("floorsheet", hdr, payload)
                                               EXCEPT !.held = S.at])], LAMBDA S1 :
         IF script.pages[page + 1] = "fail" THEN [S1 EXCEPT !.caught = "HTTPError"]
         ELSE IF script.pages[page + 1] = "empty" THEN S1
         ELSE IF page >= script.total - 1 THEN S1
         ELSE IF limit > 0 /\ fetched + 1 >= limit THEN S1
         ELSE fetch_pages(S1, hdr, payload, script, page + 1, fetched + 1, limit))

\* get_floorsheet before it signs: the headers it builds (hdr), the
\* security id lookup when a symbol is given; go tells that it goes on.
floorsheet_setup(S, symbol, ar, pv) ==
    Eval(get_auth_headers(S, ar), LAMBDA S0 :
    IF S0.err # "none" THEN [S |-> swallowed(S0), hdr |-> S0.at, go |-> FALSE]
    ELSE Eval(IF symbol THEN ensure_security_ids(S0, ar, pv) ELSE S0, LAMBDA S1 :
         [S |-> [S1 EXCEPT !.body = EmptyBody], hdr |-> S0.at,
          go |-> ~(symbol /\ Falsy(S1.sidmap))]))

\* payload_id = self._get_floorsheet_payload_id(company_id, datetime.now())
floorsheet_sign(su, ar, sr, ar3) ==
    IF ~su.go THEN su
    ELSE Eval(get_floorsheet_payload_id(su.S, Today, ar, sr, ar3), LAMBDA S2 :
         IF S2.err # "none" THEN [su EXCEPT !.S = swallowed(S2), !.go = FALSE]
         ELSE [su EXCEPT !.S = [S2 EXCEPT !.body = EmptyBody]])

\* payload = {"id": payload_id} and the page loop, from page 0
floorsheet_pages(sg, symbol, limit, script) ==
    IF ~sg.go THEN sg.S
    ELSE fetch_pages(sg.S, sg.hdr, JInt(sg.S.num), script, 0, 0,
                     effective_limit(symbol, limit))

\* Nepse.get_floorsheet(symbol, date, size, limit, page = 0); symbol tells
\* whether a symbol is given; pv answers the request of
\* _ensure_security_ids, sr and ar3 those of the signer, script the pages.
get_floorsheet(S, symbol, limit, ar, pv, sr, ar3, script) ==
    floorsheet_pages(floorsheet_sign(floorsheet_setup(S, symbol, ar, pv), ar, sr, ar3),
                     symbol, limit, script)

\* ---- the page loop of get_floorsheet, one request at a time
\* What the server holds: at most MaxPages pages of two rows each; the
\* rows of page p are numbered 2p+1 and 2p+2.
page_content(p) == <<2 * p + 1, 2 * p + 2>>

\* What the server may answer to the request of page p while it reports
\* totalPages = total: an error status, no content, or the rows of the page.
PageAnswers(p, total) ==
    {[kind |-> "fail", content |-> <<>>, totalPages |-> total],
     [kind |-> "ok", content |-> <<>>, totalPages |-> total]}
    \cup (IF p < MaxPages
          THEN {[kind |-> "ok", content |-> page_content(p), totalPages |-> total]}
          ELSE {})

\* The limit and page arguments a call is made with.
LoopLimits == {JNull, JInt(0), JInt(1), JInt(2)}
StartPages == {0, 1}

\* The locals of the loop: current_top_page (page), pages_fetched
\* (fetched), all_records (records), effective_limit (limit); requested
\* lists the pages asked for, ended tells which break left the loop.
NoLoop ==
    [pc |-> "idle", symbol |-> FALSE, arg_limit |-> JNull, limit |-> 0,
     total |-> 1, start |-> 0, page |-> 0, fetched |-> 0, records |-> <<>>,
     requested |-> <<>>, ended |-> "none", returned |-> <<>>]

\* all_records = [], current_top_page = page, pages_fetched = 0 and
\* effective_limit
loop_start(symbol, limit, page, total) ==
    [NoLoop EXCEPT !.pc = "request", !.symbol = symbol, !.arg_limit = limit,
                   !.limit = effective_limit(symbol, limit), !.total = total,
                   !.start = page, !.page = page]

\* A page loop that goes on after the page totalPages - 1.
page_step_ignoring_total(L, a) ==
    IF a.kind = "fail" THEN [L EXCEPT !.pc = "break", !.ended = "fail"]
    ELSE IF a.content = <<>> THEN [L EXCEPT !.pc = "break", !.ended = "empty"]
    ELSE IF L.limit > 0 /\ L.fetched + 1 >= L.limit
    THEN [L EXCEPT !.records = @ \o a.content, !.fetched = @ + 1,
                   !.pc = "break", !.ended = "limit"]
    ELSE [L EXCEPT !.records = @ \o a.content, !.fetched = @ + 1, !.page = @ + 1]

\* A page loop that gives up what it has fetched when a request fails.
page_step_dropping(L, a) ==
    IF a.kind = "fail"
    THEN [L EXCEPT !.pc = "break", !.ended = "fail", !.records = <<>>]
    ELSE IF a.content = <<>> THEN [L EXCEPT !.pc = "break", !.ended = "empty"]
    ELSE IF L.page >= a.totalPages - 1
    THEN [L EXCEPT !.records = @ \o a.content, !.fetched = @ + 1,
                   !.pc = "break", !.ended = "last_page"]
    ELSE IF L.limit > 0 /\ L.fetched + 1 >= L.limit
    THEN [L EXCEPT !.records = @ \o a.content, !.fetched = @ + 1,
                   !.pc = "break", !.ended = "limit"]
    ELSE [L EXCEPT !.records = @ \o a.content, !.fetched = @ + 1, !.page = @ + 1]

\* A page loop that takes the limit for a number of pages to skip.
page_step_unlimited(L, a) ==
    IF a.kind = "fail" THEN [L EXCEPT !.pc = "break", !.ended = "fail"]
    ELSE IF a.content = <<>> THEN [L EXCEPT !.pc = "break", !.ended = "empty"]
    ELSE IF L.page >= a.totalPages - 1
    THEN [L EXCEPT !.records = @ \o a.content, !.fetched = @ + 1,
                   !.pc = "break", !.ended = "last_page"]
    ELSE [L EXCEPT !.records = @ \o a.content, !.fetched = @ + 1, !.page = @ + 1]

\* One iteration of while True once the answer a of the POST is there:
\* raise_for_status and the except clause, "if not content", extend,
\* the totalPages test, the limit test, current_top_page += 1.
page_step(L, a) ==
    IF a.kind = "fail" THEN [L EXCEPT !.pc = "break", !.ended = "fail"]
    ELSE IF a.content = <<>> THEN [L EXCEPT !.pc = "break", !.ended = "empty"]
    ELSE IF L.page >= a.totalPages - 1
    THEN [L EXCEPT !.records = @ \o a.content, !.fetched = @ + 1,
                   !.pc = "break", !.ended = "last_page"]
    ELSE IF L.limit > 0 /\ L.fetched + 1 >= L.limit
    THEN [L EXCEPT !.records = @ \o a.content, !.fetched = @ + 1,
                   !.pc = "break", !.ended = "limit"]
    ELSE [L EXCEPT !.records = @ \o a.content, !.fetched = @ + 1, !.page = @ + 1]

\* ---- AsyncNepse
AsyncEndpoints ==
    {"market-open", "market-summary", "nepse-index", "nots", "lives-market",
     "top-gainer"}

\* AsyncNepse.authenticate: one GET of the token endpoint without
\* raise_for_status(); the body of a non-2xx answer has no salts, which the
\* parser rejects.  Only the access token and the salts are stored.
async_authenticate(S, ar) ==
    Eval([S EXCEPT !.sent = Append(@, Req("prove", JAbsent, JAbsent)),
                   !.auths = @ + 1, !.by = Append(@, "async")], LAMBDA S1 :
        IF ar.fail = "ConnectionError" THEN [S1 EXCEPT !.err = ar.fail]
        ELSE IF ar.fail # "none" THEN [S1 EXCEPT !.err = "ValueError"]
        ELSE Eval(parse_token_response(AuthBodyOf(ar.body)), LAMBDA r :
                  IF r.err # "none" THEN [S1 EXCEPT !.err = r.err]
                  ELSE [S1 EXCEPT !.at = JStr(r.access_token),
                                  !.salts = JList(r.salts)]))

\* if not self.access_token: await self.authenticate()
async_ensure_token(S, ar) ==
    IF Falsy(S.at) THEN async_authenticate(S, ar) ELSE S

\* session.get / session.post of the async client and response.json(): a
\* non-2xx answer is returned like any other, a failed connection raises.
async_send(S1, ep, body, resp) ==
    IF S1.err # "none" THEN S1
    ELSE Eval([S1 EXCEPT !.sent = Append(@, Req(ep, S1.at, body))], LAMBDA S2 :
        IF resp.fail = "ConnectionError" THEN [S2 EXCEPT !.err = resp.fail]
        ELSE [S2 EXCEPT !.body = resp.body])

\* AsyncNepse.get_market_status, get_market_summary, get_nepse_index,
\* get_sub_indices, get_live_market, get_top_gainers
async_get(S, ep, ar, resp) ==
    async_send(async_ensure_token(S, ar), ep, JAbsent, resp)

\* AsyncNepse.get_today_price: payload = {"id": 1}
async_get_today_price(S, ar, resp) ==
    async_send(async_ensure_token(S, ar), "today-price", JInt(1), resp)

\* ---- the actions
NoOp ==
    [op |-> "none", err |-> "none", caught |-> "none", sent |-> <<>>, auths |-> 0,
     by |-> <<>>, signed |-> <<>>, after |-> "other",
     body |-> EmptyBody, num |-> 0, day |-> 0,
     pre_at_unset |-> TRUE, pre_salts_unset |-> TRUE, pre_cached |-> FALSE]

CacheOf(enabled) ==
    [enabled |-> enabled, default_ttl |-> DefaultTtl,
     entries |-> [key \in CacheKeys |-> NoEntry]]

\* ---- the tasks of an asyncio event loop that share one AsyncNepse client
Tasks == {1, 2}
IdleTask == [pc |-> "idle", op |-> "none", auths |-> 0, hdr |-> JAbsent]
NoTasks == [t \in Tasks |-> IdleTask]

\* The attributes of a Nepse object: __init__ creates each of them anew, the
\* CacheManager and its _cache dictionary included.
NoOther ==
    [pc |-> "none", at |-> JNull, rt |-> JNull, salts |-> JNull, ts |-> 0,
     cache |-> CacheOf(FALSE)]

\* A process whose CacheManager objects share one _cache dictionary.
others_after_shared_cache(o, S) == [o EXCEPT !.cache = S.cache]

\* What an operation that ran on one object and ended in S leaves in another
\* object o: every assignment of the methods is to an attribute of self, and
\* the class holds BASE_URL only.
others_after(o, S) == o

\* The operation name ran from the current state and ended in S.
Done(name, day, S) ==
    /\ access_token' = S.at
    /\ refresh_token' = S.rt
    /\ salts' = S.salts
    /\ token_timestamp' = S.ts
    /\ cache' = S.cache
    /\ security_id_map' = S.sidmap
    /\ other' = others_after(other, S)
    /\ last_op' = [op |-> name, err |-> S.err, caught |-> S.caught, sent |-> S.sent,
                   auths |-> S.auths, by |-> S.by, signed |-> S.signed,
                   after |-> IF last_op.op = "get_auth_headers" /\ last_op.pre_at_unset
                             THEN (IF last_op.err = "none" THEN "lazy" ELSE "lazy_failed")
                             ELSE "other",
                   body |-> S.body, num |-> S.num, day |-> day,
                   pre_at_unset |-> Falsy(access_token),
                   pre_salts_unset |-> Falsy(salts),
                   pre_cached |-> cache.enabled /\ cache_get(cache, "market_status").hit]

SessInit ==
    /\ other = NoOther
    /\ tasks = NoTasks
    /\ loop = NoLoop
    /\ pc = "new"
    /\ access_token = JNull
    /\ refresh_token = JNull
    /\ salts = JNull
    /\ token_timestamp = 0
    /\ cache \in {CacheOf(TRUE), CacheOf(FALSE)}
    /\ security_id_map = JNull
    /\ ticks = 0
    /\ last_op = NoOp

NoLog == [input |-> "b1", entries |-> {}]

\* A session built with authenticate() patched out, as the tests build it
\* (tests/test_market.py 21-23, 36-38): it is live and holds no credentials.
PatchedInit ==
    /\ other = NoOther
    /\ tasks = NoTasks
    /\ loop = NoLoop
    /\ pc = "live"
    /\ access_token = JNull
    /\ refresh_token = JNull
    /\ salts = JNull
    /\ token_timestamp = 0
    /\ cache = CacheOf(FALSE)
    /\ security_id_map = JNull
    /\ ticks = 0
    /\ last_op = NoOp

\* Nepse.__init__: the fields are set and authenticate() is called; when it
\* raises, no session object exists.
Construct ==
    /\ pc = "new"
    /\ \E ar \in AuthResponses :
       \E S \in {authenticate_by(Cur, ar, "init")} :
          /\ Done("init", 0, S)
          /\ pc' = IF S.err = "none" THEN "live" ELSE "dead"
    /\ UNCHANGED <<ticks, parse_log, parseVars, payVars, tasks, loop>>

\* The answers the server may give to a request the operation makes; a
\* request it does not make has one (unused) answer.
AuthChoices(needed) ==
    IF needed THEN AuthResponses ELSE {[fail |-> "none", body |-> "b1"]}
StatusChoices(needed) ==
    IF needed THEN StatusResponses ELSE {[fail |-> "none", body |-> EmptyBody]}

\* get_market_status(use_cache) is answered from the cache
StatusCached(use_cache) ==
    use_cache /\ cache.enabled /\ cache_get(cache, "market_status").hit

Authenticate ==
    /\ pc = "live"
    /\ \E ar \in AuthResponses :
       \E S \in {authenticate_by(Cur, ar, "explicit")} : Done("authenticate", 0, S)
    /\ UNCHANGED <<pc, ticks, parse_log, parseVars, payVars, tasks, loop>>

GetAuthHeaders ==
    /\ pc = "live"
    /\ \E ar \in AuthChoices(Falsy(access_token)) :
       \E S \in {get_auth_headers(Cur, ar)} : Done("get_auth_headers", 0, S)
    /\ UNCHANGED <<pc, ticks, parse_log, parseVars, payVars, tasks, loop>>

GetMarketStatus ==
    /\ pc = "live"
    /\ \E use_cache \in BOOLEAN :
       \E ar \in AuthChoices(~StatusCached(use_cache) /\ Falsy(access_token)),
          sr \in StatusChoices(~StatusCached(use_cache)) :
       \E S \in {get_market_status(Cur, use_cache, ar, sr)} :
          Done("get_market_status", 0, S)
    /\ UNCHANGED <<pc, ticks, parse_log, parseVars, payVars, tasks, loop>>

\* get_market_summary(use_cache) is answered from the cache
SummaryCached(use_cache) ==
    use_cache /\ cache.enabled /\ cache_get(cache, "market_summary").hit

GetMarketSummary ==
    /\ pc = "live"
    /\ \E use_cache \in BOOLEAN :
       \E ar \in AuthChoices(~SummaryCached(use_cache) /\ Falsy(access_token)),
          sr \in StatusChoices(~SummaryCached(use_cache)) :
       \E S \in {get_market_summary(Cur, use_cache, ar, sr)} :
          Done(IF use_cache THEN "get_market_summary"
               ELSE "get_market_summary(use_cache=False)", 0, S)
    /\ UNCHANGED <<pc, ticks, parse_log, parseVars, payVars, tasks, loop>>

ClearCache ==
    /\ pc = "live"
    /\ \E S \in {clear_cache(Cur)} : Done("clear_cache", 0, S)
    /\ UNCHANGED <<pc, ticks, parse_log, parseVars, payVars, tasks, loop>>

GetPayloadId ==
    /\ pc = "live"
    /\ \E day \in Days,
          ar1 \in AuthChoices(~StatusCached(TRUE) /\ Falsy(access_token)),
          sr \in StatusChoices(~StatusCached(TRUE)) :
       \E S1 \in {get_market_status(Cur, TRUE, ar1, sr)} :
       \E ar2 \in AuthChoices(S1.err = "none" /\ Falsy(S1.salts)) :
       \E S \in {get_floorsheet_payload_id(Cur, day, ar1, sr, ar2)} :
          Done("payload_id", day, S)
    /\ UNCHANGED <<pc, ticks, parse_log, parseVars, payVars, tasks, loop>>

RefreshAuthToken ==
    /\ pc = "live"
    /\ \E ar \in AuthChoices(Falsy(access_token)), rr \in RefreshResponses :
       \E S \in {refresh_auth_token(Cur, ar, rr)} : Done("refresh_auth_token", 0, S)
    /\ UNCHANGED <<pc, ticks, parse_log, parseVars, payVars, tasks, loop>>

GetTodayPrice ==
    /\ pc = "live"
    /\ \E date \in Dates, use_cache \in BOOLEAN :
       \E hit \in {use_cache /\ cache.enabled
                       /\ cache_get(cache, today_price_key(date)).hit} :
       \E ar \in AuthChoices(~hit /\ Falsy(access_token)),
          sr1 \in StatusChoices(~hit /\ date = NoDate /\ ~StatusCached(TRUE)) :
       \E sr2 \in StatusChoices(~hit /\ (~cache.enabled \/ sr1.fail # "none"
                                          \/ (date # NoDate /\ ~StatusCached(TRUE)))),
          ar3 \in AuthChoices(~hit /\ Falsy(salts)),
          pr \in IF hit THEN {[fail |-> "none", body |-> EmptyBody]} ELSE PostResponses :
       \E S \in {get_today_price(Cur, date, use_cache, ar, sr1, sr2, ar3, pr)} :
          Done(IF use_cache THEN "get_today_price"
               ELSE "get_today_price(use_cache=False)", date.day, S)
    /\ UNCHANGED <<pc, ticks, parse_log, parseVars, payVars, tasks, loop>>

GetFloorsheet ==
    /\ pc = "live"
    /\ \E symbol \in BOOLEAN, date \in Dates :
       \E ar \in AuthChoices(Falsy(access_token)),
          pv \in IF symbol /\ Falsy(security_id_map) THEN PriceVolumeResponses
                 ELSE {[fail |-> "none", body |-> EmptyBody]} :
       \E su \in {floorsheet_setup(Cur, symbol, ar, pv)} :
       \E sr \in StatusChoices(su.go /\ ~(su.S.cache.enabled
                                  /\ cache_get(su.S.cache, "market_status").hit)),
          ar3 \in AuthChoices(su.go /\ Falsy(su.S.salts)) :
       \E sg \in {floorsheet_sign(su, ar, sr, ar3)} :
       \E script \in IF sg.go THEN PageScripts ELSE {[total |-> 1, pages |-> <<"rows">>]},
          limit \in IF sg.go THEN Limits ELSE {JNull} :
       \E S \in {floorsheet_pages(sg, symbol, limit, script)} :
          Done("get_floorsheet", date.day, S)
    /\ UNCHANGED <<pc, ticks, parse_log, parseVars, payVars, tasks, loop>>

\* get_floorsheet up to its while True: the headers, the security ids, the
\* payload id; a call that returns [] before the loop leaves no loop.
FloorsheetEnter ==
    /\ pc = "live"
    /\ loop.pc \in {"idle", "returned"}
    /\ \E symbol \in BOOLEAN :
       \E ar \in AuthChoices(Falsy(access_token)),
          pv \in IF symbol /\ Falsy(security_id_map) THEN PriceVolumeResponses
                 ELSE {[fail |-> "none", body |-> EmptyBody]} :
       \E su \in {floorsheet_setup(Cur, symbol, ar, pv)} :
       \E sr \in StatusChoices(su.go /\ ~(su.S.cache.enabled
                                  /\ cache_get(su.S.cache, "market_status").hit)),
          ar3 \in AuthChoices(su.go /\ Falsy(su.S.salts)) :
       \E sg \in {floorsheet_sign(su, ar, sr, ar3)} :
          /\ Done("get_floorsheet", NoDate.day, sg.S)
          /\ IF sg.go
             THEN \E limit \in LoopLimits, page \in StartPages, total \in 1..MaxPages :
                     loop' = loop_start(symbol, limit, page, total)
             ELSE loop' = NoLoop
    /\ UNCHANGED <<pc, ticks, parse_log, parseVars, payVars, tasks>>

\* One turn of the loop: the POST of page current_top_page and its answer.
FloorsheetPage ==
    /\ loop.pc = "request"
    /\ \E a \in PageAnswers(loop.page, loop.total) :
          loop' = page_step([loop EXCEPT !.requested = Append(@, loop.page)], a)
    /\ UNCHANGED <<parseVars, payVars, pc, access_token, refresh_token, salts,
                   token_timestamp, cache, security_id_map, ticks, last_op, other,
                   tasks, parse_log>>

\* return all_records
FloorsheetReturn ==
    /\ loop.pc = "break"
    /\ loop' = [loop EXCEPT !.pc = "returned", !.returned = loop.records]
    /\ UNCHANGED <<parseVars, payVars, pc, access_token, refresh_token, salts,
                   token_timestamp, cache, security_id_map, ticks, last_op, other,
                   tasks, parse_log>>

\* AsyncNepse.__init__: no request is made.
AsyncInit ==
    /\ other = NoOther
    /\ tasks = NoTasks
    /\ loop = NoLoop
    /\ pc = "async"
    /\ access_token = JNull
    /\ refresh_token = JNull
    /\ salts = JNull
    /\ token_timestamp = 0
    /\ cache = CacheOf(TRUE)
    /\ security_id_map = JNull
    /\ ticks = 0
    /\ last_op = NoOp

AsyncAuthenticate ==
    /\ pc = "async"
    /\ \E ar \in AuthResponses :
       \E S \in {async_authenticate(Cur, ar)} : Done("async_authenticate", 0, S)
    /\ UNCHANGED <<pc, ticks, parse_log, parseVars, payVars, tasks, loop>>

AsyncGet ==
    /\ pc = "async"
    /\ \E ep \in AsyncEndpoints, ar \in AuthChoices(Falsy(access_token)),
          resp \in StatusResponses :
       \E S \in {async_get(Cur, ep, ar, resp)} : Done("async_get", 0, S)
    /\ UNCHANGED <<pc, ticks, parse_log, parseVars, payVars, tasks, loop>>

AsyncGetTodayPrice ==
    /\ pc = "async"
    /\ \E ar \in AuthChoices(Falsy(access_token)), resp \in PostResponses :
       \E S \in {async_get_today_price(Cur, ar, resp)} :
          Done("async_get_today_price", 0, S)
    /\ UNCHANGED <<pc, ticks, parse_log, parseVars, payVars, tasks, loop>>

\* ---- a second Nepse object
\* The second object while one of its operations runs.
CurOf(o) ==
    [Cur EXCEPT !.at = o.at, !.rt = o.rt, !.salts = o.salts, !.ts = o.ts,
                !.cache = o.cache, !.sidmap = JNull]

\* The first object as another object sees it.
Mine ==
    [pc |-> pc, at |-> access_token, rt |-> refresh_token, salts |-> salts,
     ts |-> token_timestamp, cache |-> cache]

\* An operation of the second object ended in S with the object in state q.
OtherDone(q, S) ==
    /\ other' = [pc |-> q, at |-> S.at, rt |-> S.rt, salts |-> S.salts, ts |-> S.ts,
                 cache |-> S.cache]
    /\ \E o \in {others_after(Mine, S)} :
          /\ access_token' = o.at
          /\ refresh_token' = o.rt
          /\ salts' = o.salts
          /\ token_timestamp' = o.ts
          /\ cache' = o.cache
    /\ UNCHANGED <<pc, security_id_map, ticks, last_op, parse_log, parseVars, payVars, tasks, loop>>

\* other = Nepse(enable_cache=...)
OtherConstruct ==
    /\ pc = "live"
    /\ other.pc = "none"
    /\ \E enabled \in BOOLEAN, ar \in AuthResponses :
       \E S \in {authenticate_by(CurOf([NoOther EXCEPT !.cache = CacheOf(enabled)]),
                                  ar, "init")} :
          OtherDone(IF S.err = "none" THEN "live" ELSE "dead", S)

\* other.refresh_auth_token()
OtherRefreshAuthToken ==
    /\ other.pc = "live"
    /\ \E rr \in RefreshResponses :
       \E S \in {refresh_auth_token(CurOf(other), [fail |-> "none", body |-> "b1"], rr)} :
          OtherDone("live", S)

\* other.get_market_status()
OtherGetMarketStatus ==
    /\ other.pc = "live"
    /\ \E sr \in StatusResponses :
       \E S \in {get_market_status(CurOf(other), TRUE,
                                    [fail |-> "none", body |-> "b1"], sr)} :
          OtherDone("live", S)

\* ---- AsyncNepse shared by tasks: one step runs a task from one await of
\* network I/O to the next.
\* A client whose tasks wait while another task's authenticate() is in flight.
fetch_start_single_flight(at, ts, t) ==
    IF ~Falsy(at) THEN "fetch_wait"
    ELSE IF \E u \in Tasks \ {t} : ts[u].pc = "auth_wait" THEN "lock_wait"
    ELSE "auth_wait"

\* if not self.access_token: await self.authenticate(): where task t is
\* suspended next, at the GET of authenticate() or at the GET of the fetch.
fetch_start(at, ts, t) ==
    IF Falsy(at) THEN "auth_wait" ELSE "fetch_wait"

\* An authenticate() that is suspended between its two assignments.
async_assign_token_first(at, s, r) == [at |-> JStr(r.access_token), salts |-> s]

\* self.access_token, _, self.salts = self.token_parser.parse_token_response(data)
async_assign(at, s, r) == [at |-> JStr(r.access_token), salts |-> JList(r.salts)]

TaskInit == AsyncInit

\* Task t calls a fetch method of the client (get_market_status, ...).
TaskFetch(t) ==
    /\ pc = "async"
    /\ tasks[t].pc = "idle"
    /\ \E q \in {fetch_start(access_token, tasks, t)} :
          tasks' = [tasks EXCEPT ![t] =
                       [pc |-> q, op |-> "fetch",
                        auths |-> IF q = "auth_wait" THEN 1 ELSE 0,
                        hdr |-> IF q = "fetch_wait" THEN access_token ELSE JAbsent]]
    /\ UNCHANGED <<pc, access_token, refresh_token, salts, token_timestamp, cache,
                   security_id_map, ticks, last_op, other, parse_log, parseVars,
                   payVars, loop>>

\* Task t calls client.authenticate().
TaskAuthenticate(t) ==
    /\ pc = "async"
    /\ tasks[t].pc = "idle"
    /\ tasks' = [tasks EXCEPT ![t] =
                    [pc |-> "auth_wait", op |-> "authenticate", auths |-> 1,
                     hdr |-> JAbsent]]
    /\ UNCHANGED <<pc, access_token, refresh_token, salts, token_timestamp, cache,
                   security_id_map, ticks, last_op, other, parse_log, parseVars,
                   payVars, loop>>

\* The response of the token endpoint reaches task t: response.json(), the
\* parser and the assignment run without an await between them; a fetch
\* goes on to send its request with the token the client now holds.
TaskAuthResponse(t) ==
    /\ pc = "async"
    /\ tasks[t].pc = "auth_wait"
    /\ \E ar \in AuthResponses :
       \E S \in {async_authenticate(Cur, ar)} :
          IF S.err # "none"
          THEN /\ tasks' = [tasks EXCEPT ![t].pc = "raised"]
               /\ UNCHANGED <<access_token, salts>>
          ELSE \E a \in {async_assign(access_token, salts,
                                       parse_token_response(AuthBodyOf(ar.body)))} :
               /\ access_token' = a.at
               /\ salts' = a.salts
               /\ tasks' = [tasks EXCEPT ![t] =
                               IF @.op = "fetch"
                               THEN [@ EXCEPT !.pc = "fetch_wait", !.hdr = a.at]
                               ELSE [@ EXCEPT !.pc = "done"]]
    /\ UNCHANGED <<pc, refresh_token, token_timestamp, cache,
                   security_id_map, ticks, last_op, other, parse_log, parseVars,
                   payVars, loop>>

\* The response of the fetch reaches task t.
TaskFetchResponse(t) ==
    /\ pc = "async"
    /\ tasks[t].pc = "fetch_wait"
    /\ \E ok \in BOOLEAN :
          tasks' = [tasks EXCEPT ![t].pc = IF ok THEN "done" ELSE "raised"]
    /\ UNCHANGED <<pc, access_token, refresh_token, salts, token_timestamp, cache,
                   security_id_map, ticks, last_op, other, parse_log, parseVars,
                   payVars, loop>>

\* The call of task t returns or raises to its caller.
TaskReturn(t) ==
    /\ pc = "async"
    /\ tasks[t].pc \in {"done", "raised"}
    /\ tasks' = [tasks EXCEPT ![t] = IdleTask]
    /\ UNCHANGED <<pc, access_token, refresh_token, salts, token_timestamp, cache,
                   security_id_map, ticks, last_op, other, parse_log, parseVars,
                   payVars, loop>>

\* A call of self.token_parser.parse_token_response from outside the session.
ParserCall ==
    /\ pc = "live"
    /\ \E b \in AuthBodyNames :
       \E r \in {parse_token_response(AuthBodyOf(b))} :
          parse_log' = IF b = parse_log.input
                       THEN [parse_log EXCEPT !.entries = @ \cup {[held |-> salts, ret |-> r]}]
                       ELSE parse_log
    /\ UNCHANGED <<pc, access_token, refresh_token, salts, token_timestamp, cache,
                   security_id_map, ticks, last_op, other, parseVars, payVars, tasks, loop>>

Tick ==
    /\ pc = "live"
    /\ ticks < MaxTicks
    /\ ticks' = ticks + 1
    /\ UNCHANGED <<pc, access_token, refresh_token, salts, token_timestamp, cache,
                   security_id_map, last_op, other, parse_log, parseVars, payVars, tasks, loop>>

(***************************************************************************)
(* The specifications. Each leaves the variables of the other two at       *)
(* their initial values.                                                   *)
(***************************************************************************)
ParseIdle ==
    /\ response_data = ResponseOf(BaseSalts, JStr(Token(MaxLen)), JStr(Token(MaxLen)))
    /\ parse_pc = "idle"
    /\ parse_ret = NoReturn
    /\ ParserBuilt

PayIdle ==
    /\ pay_in = [dummy_id |-> 0, day |-> 1, salts |-> <<0, 0, 0, 0, 0>>]
    /\ pay_pc = "idle"
    /\ pay_out = 0

SessIdle ==
    /\ other = NoOther
    /\ tasks = NoTasks
    /\ loop = NoLoop
    /\ pc = "idle"
    /\ access_token = JNull
    /\ refresh_token = JNull
    /\ salts = JNull
    /\ token_timestamp = 0
    /\ cache = CacheOf(FALSE)
    /\ security_id_map = JNull
    /\ ticks = 0
    /\ last_op = NoOp
    /\ parse_log = NoLog

ParseSpecInit == ParseInit /\ PayIdle /\ SessIdle
ParseNext == ParseTokenResponse
ParseSpec == ParseSpecInit /\ [][ParseNext]_vars

\* The parser built on each asset and called once.
LoadSpecInit == LoadInit /\ PayIdle /\ SessIdle
LoadNext == NewTokenParser \/ ParseOnModule
LoadSpec == LoadSpecInit /\ [][LoadNext]_vars

PayloadSpecInit == PayInit /\ ParseIdle /\ SessIdle
PayNext == ComputePayloadId
PayloadSpec == PayloadSpecInit /\ [][PayNext]_vars

Init == SessInit /\ parse_log = NoLog /\ ParseIdle /\ PayIdle

Next ==
    \/ Construct
    \/ Authenticate
    \/ GetAuthHeaders
    \/ GetMarketStatus
    \/ GetPayloadId
    \/ RefreshAuthToken
    \/ Tick

Spec == Init /\ [][Next]_vars

\* The session's operations from both constructions, the clock stopped.
LazyInit ==
    /\ SessInit \/ PatchedInit
    /\ parse_log = NoLog /\ ParseIdle /\ PayIdle

LazyNext ==
    \/ Construct
    \/ Authenticate
    \/ GetAuthHeaders
    \/ GetMarketStatus
    \/ GetPayloadId
    \/ RefreshAuthToken

LazySpec == LazyInit /\ [][LazyNext]_vars

\* Two Nepse objects of one process, the clock stopped.
TwoNext ==
    \/ Construct
    \/ Authenticate
    \/ RefreshAuthToken
    \/ GetMarketStatus
    \/ OtherConstruct
    \/ OtherRefreshAuthToken
    \/ OtherGetMarketStatus

TwoSpec == Init /\ [][TwoNext]_vars

\* The session with a cached endpoint, the cache and the clock.
CacheNext ==
    \/ Construct
    \/ GetMarketSummary
    \/ GetMarketStatus
    \/ ClearCache
    \/ Tick

CacheSpec == Init /\ [][CacheNext]_vars

\* The session with its floorsheet requests, the clock stopped.
FloorNext ==
    \/ Construct
    \/ RefreshAuthToken
    \/ GetFloorsheet

FloorSpec == Init /\ [][FloorNext]_vars

\* The page loop of get_floorsheet, a step per page request; PageLiveSpec
\* adds that the server answers every request and that the call goes on.
PageNext ==
    \/ Construct
    \/ FloorsheetEnter
    \/ FloorsheetPage
    \/ FloorsheetReturn

PageSpec == Init /\ [][PageNext]_vars

PageLiveSpec ==
    Init /\ [][PageNext]_vars /\ WF_vars(FloorsheetPage) /\ WF_vars(FloorsheetReturn)

\* The session with its today-price requests.
TodayNext ==
    \/ Construct
    \/ GetTodayPrice
    \/ Tick

TodaySpec == Init /\ [][TodayNext]_vars

\* The asynchronous client.
AsyncSpecInit == AsyncInit /\ parse_log = NoLog /\ ParseIdle /\ PayIdle

AsyncNext ==
    \/ AsyncAuthenticate
    \/ AsyncGet
    \/ AsyncGetTodayPrice

AsyncSpec == AsyncSpecInit /\ [][AsyncNext]_vars

\* An AsyncNepse client shared by the tasks of one event loop.
TaskSpecInit == TaskInit /\ parse_log = NoLog /\ ParseIdle /\ PayIdle

TaskNext ==
    \E t \in Tasks :
        \/ TaskFetch(t)
        \/ TaskAuthenticate(t)
        \/ TaskAuthResponse(t)
        \/ TaskFetchResponse(t)
        \/ TaskReturn(t)

TaskSpec == TaskSpecInit /\ [][TaskNext]_vars

\* The session's operations with direct calls of its parser between them.
DetNext ==
    \/ Construct
    \/ Authenticate
    \/ RefreshAuthToken
    \/ ParserCall

DetInit ==
    /\ SessInit /\ ParseIdle /\ PayIdle
    /\ parse_log \in {[input |-> b, entries |-> {}] : b \in AuthBodyNames}

DetSpec == DetInit /\ [][DetNext]_vars


(***************************************************************************)
(* Properties of parse_token_response (ParseSpec).                         *)
(***************************************************************************)
SaltsValid == \A i \in 1..5 : PyInt(response_data[SaltKeys[i]]).err = "none"
Salt(i) == PyInt(response_data[SaltKeys[i]]).v
TokensAreStrings ==
    response_data.accessToken.k = "str" /\ response_data.refreshToken.k = "str"
Returned == parse_pc = "done" /\ parse_ret.err = "none"

\* C1: with salts (s1..s5), the access token's cut point n is cdx on
\* (s1,s2,s3,s4,s5) and l, o, p, q are rdx, bdx, ndx, mdx on (s1,s2,s4,s3,s5);
\* these are the first five transform calls, in this order.
C1_AccessCutCalls ==
    (parse_pc = "done" /\ SaltsValid) =>
        /\ Len(parse_ret.calls) = 10
        /\ parse_ret.calls[1] = <<"cdx", <<Salt(1), Salt(2), Salt(3), Salt(4), Salt(5)>>>>
        /\ \A i \in 2..5 :
              /\ parse_ret.calls[i][1] = <<"cdx", "rdx", "bdx", "ndx", "mdx">>[i]
              /\ parse_ret.calls[i][2] = <<Salt(1), Salt(2), Salt(4), Salt(3), Salt(5)>>
        /\ parse_ret.err = "none" =>
              parse_ret.cuts = [i \in 1..5 |->
                  Transform(parse_ret.calls[i][1], parse_ret.calls[i][2])]

C1_Witness ==
    /\ Returned
    /\ Salt(3) # Salt(4)
    /\ Len(parse_ret.calls) = 10

\* C2: the refresh token's cut point a is cdx on (s2,s1,s3,s5,s4), b is rdx
\* on (s2,s1,s3,s4,s5), and c, d, e are bdx, ndx, mdx on (s2,s1,s4,s3,s5);
\* these are the sixth to tenth transform calls, in this order.
C2_RefreshCutCalls ==
    (parse_pc = "done" /\ SaltsValid) =>
        /\ Len(parse_ret.calls) = 10
        /\ parse_ret.calls[6] = <<"cdx", <<Salt(2), Salt(1), Salt(3), Salt(5), Salt(4)>>>>
        /\ parse_ret.calls[7] = <<"rdx", <<Salt(2), Salt(1), Salt(3), Salt(4), Salt(5)>>>>
        /\ \A i \in 8..10 :
              /\ parse_ret.calls[i][1] = <<"bdx", "ndx", "mdx">>[i - 7]
              /\ parse_ret.calls[i][2] = <<Salt(2), Salt(1), Salt(4), Salt(3), Salt(5)>>
        /\ parse_ret.err = "none" =>
              parse_ret.rcuts = [i \in 1..5 |->
                  Transform(parse_ret.calls[i + 5][1], parse_ret.calls[i + 5][2])]

C2_Witness ==
    /\ Returned
    /\ Salt(1) # Salt(2) /\ Salt(3) # Salt(4) /\ Salt(4) # Salt(5)
    /\ Len(parse_ret.calls) = 10

\* The characters of str whose 0-based index is not in drop, in index order.
RECURSIVE KeepFrom(_, _, _)
KeepFrom(str, drop, i) ==
    IF i > Len(str) THEN <<>>
    ELSE (IF (i - 1) \in drop THEN <<>> ELSE <<str[i]>>) \o KeepFrom(str, drop, i + 1)

Without(str, drop) == KeepFrom(str, drop, 1)

CutSet(c) == {c[i] : i \in 1..5}
Inside(str, c) == \A i \in 1..5 : 0 <= c[i] /\ c[i] < Len(str)
NonDecreasing(c) == \A i \in 1..4 : c[i] <= c[i + 1]
Increasing(c) == \A i \in 1..4 : c[i] < c[i + 1]

\* C3 as stated: when the cut points all lie inside the string, the
\* reassembly returns the string with exactly six single characters removed,
\* at the cut indices.
C3_SixCharactersRemoved ==
    (Returned /\ Inside(response_data.accessToken.s, parse_ret.cuts)) =>
        /\ parse_ret.access_token =
              Without(response_data.accessToken.s, CutSet(parse_ret.cuts))
        /\ Len(parse_ret.access_token) = Len(response_data.accessToken.s) - 6

\* C3 amended: there are five cut points and six segments.  When the cut
\* points lie inside the string and do not decrease (n <= l <= o <= p <= q),
\* the reassembly returns the string without the characters at the cut
\* indices - one character for each distinct cut point, five at most - and
\* with every other character kept in its order; the same holds of the
\* refresh token and its cut points.
C3_CutCharactersRemoved ==
    Returned =>
        /\ (Inside(response_data.accessToken.s, parse_ret.cuts)
            /\ NonDecreasing(parse_ret.cuts)) =>
              /\ parse_ret.access_token =
                    Without(response_data.accessToken.s, CutSet(parse_ret.cuts))
              /\ Len(parse_ret.access_token) =
                    Len(response_data.accessToken.s) - Cardinality(CutSet(parse_ret.cuts))
        /\ (Inside(response_data.refreshToken.s, parse_ret.rcuts)
            /\ NonDecreasing(parse_ret.rcuts)) =>
              /\ parse_ret.refresh_token =
                    Without(response_data.refreshToken.s, CutSet(parse_ret.rcuts))
              /\ Len(parse_ret.refresh_token) =
                    Len(response_data.refreshToken.s) - Cardinality(CutSet(parse_ret.rcuts))

C3_Witness ==
    /\ Returned
    /\ Inside(response_data.accessToken.s, parse_ret.cuts)
    /\ Increasing(parse_ret.cuts)
    /\ Len(parse_ret.access_token) = Len(response_data.accessToken.s) - 5
    /\ parse_ret.access_token # <<>>

\* C34: for cut points 0 <= n < l < o < p < q < len(s) the six-segment
\* reassembly returns s without the five characters at the indices n, l, o,
\* p, q: its length is len(s) - 5 and every other character is kept once,
\* in its original order (the access token with n..q, the refresh token
\* with a..e).
C34_FiveCharactersRemoved ==
    Returned =>
        /\ (Inside(response_data.accessToken.s, parse_ret.cuts)
            /\ Increasing(parse_ret.cuts)) =>
              /\ Len(parse_ret.access_token) = Len(response_data.accessToken.s) - 5
              /\ parse_ret.access_token =
                    Without(response_data.accessToken.s, CutSet(parse_ret.cuts))
        /\ (Inside(response_data.refreshToken.s, parse_ret.rcuts)
            /\ Increasing(parse_ret.rcuts)) =>
              /\ Len(parse_ret.refresh_token) = Len(response_data.refreshToken.s) - 5
              /\ parse_ret.refresh_token =
                    Without(response_data.refreshToken.s, CutSet(parse_ret.rcuts))

C34_Witness ==
    /\ Returned
    /\ Inside(response_data.accessToken.s, parse_ret.cuts)
    /\ Increasing(parse_ret.cuts)
    /\ parse_ret.cuts[5] < Len(response_data.accessToken.s) - 1
    /\ parse_ret.access_token =
          Without(response_data.accessToken.s, CutSet(parse_ret.cuts))
    /\ Len(parse_ret.access_token) = 2

\* C4 as stated: the parser accepts a response exactly when all five salts
\* are present and integer-coercible; otherwise it raises the
\* malformed-response error (ValueError) before any transform is invoked.
\* Stated for responses whose two tokens are strings.
C4_SaltValidation ==
    (parse_pc = "done" /\ TokensAreStrings) =>
        /\ parse_ret.err = "none" <=> SaltsValid
        /\ ~SaltsValid => (parse_ret.err = "ValueError" /\ parse_ret.calls = <<>>)

\* C5: cut points that are not negative, the length of the string and
\* beyond included, raise no index error: the parser returns, each segment
\* is the characters of its range that exist, the empty string when none
\* does.
Chars(str, lo, hi) ==
    Without(str, {k \in 0..(Len(str) - 1) : ~(lo <= k /\ k < hi)})

Segments(str, c) ==
    Chars(str, 0, c[1]) \o Chars(str, c[1] + 1, c[2]) \o Chars(str, c[2] + 1, c[3])
    \o Chars(str, c[3] + 1, c[4]) \o Chars(str, c[4] + 1, c[5])
    \o Chars(str, c[5] + 1, Len(str))

C6_MissingTokenMalformed ==
    (parse_pc = "done" /\ SaltsValid
        /\ (response_data.accessToken.k = "absent"
            \/ response_data.refreshToken.k = "absent")) =>
        parse_ret.err = "ValueError"

\* C7: the third result of parse_token_response is the list of the five
\* salts as integers, salt1 to salt5 in this order.
C7_SaltsInOrder ==
    Returned =>
        /\ parse_ret.salts = <<Salt(1), Salt(2), Salt(3), Salt(4), Salt(5)>>
        /\ \A i \in 1..5 :
              /\ parse_ret.salts[i] \in Int
              /\ response_data[SaltKeys[i]].k = "int" =>
                    parse_ret.salts[i] = response_data[SaltKeys[i]].v
              /\ response_data[SaltKeys[i]] = JStr(<<"1", "0">>) => parse_ret.salts[i] = 10

C7_Witness ==
    /\ Returned
    /\ parse_ret.salts # salts_reversed(parse_ret.salts)
    /\ \E i \in 1..5 : response_data[SaltKeys[i]] = JStr(<<"1", "0">>)


(***************************************************************************)
(* Properties of the payload-id arithmetic (PayloadSpec).                  *)
(***************************************************************************)
\* C9: for base id b, day d and salts s the payload id is
\* e + s[k]*d - s[k-1] with e = table[b mod 100] + b + 2*d and k = 1 when
\* e mod 10 < 4, else 3 (salts counted from 0, the table has 100 entries);
\* for b = 147, d = 12, s = (100,200,300,400,500) it is 5534.
C9_PayloadIdFormula ==
    /\ Len(DUMMY_DATA) = 100
    /\ pay_pc = "done" =>
          \E e \in {DUMMY_DATA[(pay_in.dummy_id % 100) + 1]
                        + pay_in.dummy_id + 2 * pay_in.day} :
          \E k \in {IF e % 10 < 4 THEN 1 ELSE 3} :
              pay_out = e + pay_in.salts[k + 1] * pay_in.day - pay_in.salts[k]
    /\ (pay_pc = "done"
        /\ pay_in = [dummy_id |-> 147, day |-> 12,
                     salts |-> <<100, 200, 300, 400, 500>>]) => pay_out = 5534

C9_Witness ==
    /\ pay_pc = "done"
    /\ pay_in = [dummy_id |-> 147, day |-> 12, salts |-> <<100, 200, 300, 400, 500>>]
    /\ pay_out = 5534


ProveRequests(sent) == {i \in 1..Len(sent) : sent[i].ep = "prove"}
SaltsUnsetAtPayloadId == last_op.op = "payload_id" /\ last_op.pre_salts_unset

C11_BaseIdFetchedForComputation ==
    (last_op.op = "payload_id" /\ last_op.err = "none") =>
        /\ \E i \in 1..Len(last_op.sent) : last_op.sent[i].ep = "market-open"
        /\ ~last_op.pre_cached

\* C15: on a session that holds no access token _get_auth_headers() calls
\* authenticate() exactly once; a second call made immediately after it has
\* returned calls authenticate() zero times.
C15_LazyAuthentication ==
    /\ (last_op.op = "get_auth_headers" /\ last_op.pre_at_unset) =>
          /\ last_op.auths = 1
          /\ Len(last_op.sent) = 1 /\ last_op.sent[1].ep = "prove"
    /\ (last_op.op = "get_auth_headers" /\ last_op.after = "lazy") =>
          /\ last_op.auths = 0
          /\ last_op.sent = <<>>
          /\ last_op.err = "none"

C15_Witness ==
    /\ last_op.op = "get_auth_headers"
    /\ last_op.after = "lazy"
    /\ last_op.auths = 0
    /\ ~Falsy(access_token)

Triggers(op) == {op.by[i] : i \in 1..Len(op.by)}

C18_OneRequestPerAuthenticate ==
    /\ Cardinality(ProveRequests(last_op.sent)) = last_op.auths
    /\ last_op.op = "authenticate" =>
          /\ last_op.auths = 1
          /\ last_op.sent = <<Req("prove", JAbsent, JAbsent)>>
          /\ last_op.caught = "none"

C18_Witness ==
    /\ last_op.op = "authenticate"
    /\ last_op.err \in {"ConnectionError", "HTTPError", "ValueError"}
    /\ Len(last_op.sent) = 1

\* C19: an authenticate() that fails (transport failure or timeout, non-2xx
\* status, malformed response) leaves access token, refresh token, salts
\* and issuance timestamp as they were before the call; a session without
\* credentials is still without them.
C19_FailedAuthKeepsCredentials ==
    [][(last_op'.op \in {"authenticate", "init"} /\ last_op'.err # "none") =>
          UNCHANGED <<access_token, refresh_token, salts, token_timestamp>>]_vars

C19_Witness ==
    /\ last_op.op = "authenticate"
    /\ last_op.err = "ConnectionError"
    /\ pc = "live"
    /\ Falsy(access_token) /\ Falsy(refresh_token) /\ Falsy(salts)
    /\ token_timestamp = 0

SignedEndpoints == {"today-price", "floorsheet"}
SignedPosts(op) == {i \in 1..Len(op.sent) : op.sent[i].ep \in SignedEndpoints}

\* C12 as stated: the payload id is recomputed for each signed POST request:
\* no request carries a payload id computed for an earlier request, the
\* successive page requests of one get_floorsheet call included.
C12_PayloadIdPerRequest ==
    Cardinality(SignedPosts(last_op)) <= Len(last_op.signed)

\* C13 as stated: every signed POST request, of the synchronous and of the
\* asynchronous client, carries the body {"id": payload_id}, payload_id
\* being what the payload-id formula gives for the session's salts, the
\* market-status base id and the day of month.
C13_SignedBodyIsPayloadId ==
    \A i \in SignedPosts(last_op) :
       /\ last_op.signed # <<>>
       /\ salts.k = "list" /\ Len(salts.s) = 5
       /\ \E g \in {last_op.signed[Len(last_op.signed)]} :
          \E e \in {DUMMY_DATA[(g.id % 100) + 1] + g.id + 2 * g.day} :
          \E k \in {IF e % 10 < 4 THEN 1 ELSE 3} :
             last_op.sent[i].body = JInt(e + salts.s[k + 1] * g.day - salts.s[k])

\* C14 as stated: a get_today_price or get_floorsheet call given the date D
\* signs its request with the day of D, not with the day of the current
\* date.
C14_SignsWithRequestedDay ==
    (last_op.op \in {"get_today_price", "get_today_price(use_cache=False)",
                     "get_floorsheet"} /\ last_op.day # 0) =>
        \A i \in 1..Len(last_op.signed) : last_op.signed[i].day = last_op.day

\* C17 as stated: every authenticated request carries the header
\* Authorization = "Salter " + the access token the session holds at the
\* moment the request is sent.
C17_HeaderIsHeldToken ==
    \A i \in 1..Len(last_op.sent) :
       last_op.sent[i].auth.k # "absent" =>
          last_op.sent[i].auth = last_op.sent[i].held


(***************************************************************************)
(* Properties of refresh_auth_token (LazySpec).                            *)
(***************************************************************************)
RefreshRequests(op) == {i \in 1..Len(op.sent) : op.sent[i].ep = "refresh-token"}
RefreshAnswered(op) ==
    op.op = "refresh_auth_token" /\ op.caught = "none" /\ RefreshRequests(op) # {}
RefreshFailed(op) ==
    /\ op.op = "refresh_auth_token"
    /\ op.caught \in {"HTTPError", "ConnectionError"}
    /\ RefreshRequests(op) # {}
AuthenticatedTokens ==
    {parse_token_response(AuthBodyOf(b)) : b \in {"b1", "b2"}}

\* C21 as stated: when the refresh response contains no new refresh token,
\* refresh_auth_token() leaves the session's refresh token unchanged.
C21_RefreshTokenUnchanged ==
    [][(RefreshAnswered(last_op') /\ last_op'.body.refreshToken.k = "absent") =>
          refresh_token' = refresh_token]_vars

\* C21 amended: a refresh answered without a refresh token changes the
\* refresh token only through the authenticate() that _get_auth_headers()
\* makes first when the session holds no access token; the refresh token is
\* then the one of that authentication response.  A session that holds an
\* access token keeps its refresh token.
C21_RefreshTokenKept ==
    [][(RefreshAnswered(last_op') /\ last_op'.body.refreshToken.k = "absent") =>
          /\ last_op'.auths = 0 => refresh_token' = refresh_token
          /\ last_op'.auths # 0 =>
                /\ last_op'.pre_at_unset /\ last_op'.auths = 1
                /\ \E r \in AuthenticatedTokens :
                      refresh_token' = JStr(r.refresh_token)]_vars

C21_Witness ==
    /\ RefreshAnswered(last_op)
    /\ last_op.body.accessToken = RefreshedToken
    /\ last_op.body.refreshToken.k = "absent"
    /\ last_op.auths = 0
    /\ access_token = RefreshedToken
    /\ refresh_token.k = "str"

\* C22 as stated: when the refresh response provides a new refresh token,
\* refresh_auth_token() replaces the session's refresh token with it.
C22_RefreshTokenReplaced ==
    [][(RefreshAnswered(last_op') /\ last_op'.body.accessToken.k = "str"
            /\ last_op'.body.refreshToken.k = "str") =>
          refresh_token' = last_op'.body.refreshToken]_vars

\* C23 as stated: when the refresh request fails, the access token, the
\* refresh token, the salts and the timestamp are the ones held before
\* refresh_auth_token() was called, and authenticate() is not invoked.
C23_FailedRefreshChangesNothing ==
    [][RefreshFailed(last_op') =>
          /\ UNCHANGED <<access_token, refresh_token, salts, token_timestamp>>
          /\ last_op'.auths = 0]_vars

\* C23 amended: when the refresh request fails, the credentials are the ones
\* held when the request was sent and authenticate() is not invoked after
\* the failure.  They are the ones held before the call when the session
\* held an access token; a session without one has authenticated (once, in
\* _get_auth_headers()) before sending the request.
C23_FailedRefreshKeepsCredentials ==
    [][RefreshFailed(last_op') =>
          /\ \A i \in RefreshRequests(last_op') :
                /\ i = Len(last_op'.sent)
                /\ access_token' = last_op'.sent[i].held
          /\ last_op'.auths = 0 =>
                UNCHANGED <<access_token, refresh_token, salts, token_timestamp>>
          /\ last_op'.auths # 0 =>
                /\ last_op'.pre_at_unset /\ last_op'.auths = 1
                /\ \E r \in AuthenticatedTokens :
                      /\ access_token' = JStr(r.access_token)
                      /\ refresh_token' = JStr(r.refresh_token)
                      /\ salts' = JList(r.salts)]_vars

C23_Witness ==
    /\ RefreshFailed(last_op)
    /\ last_op.caught = "ConnectionError"
    /\ last_op.auths = 0
    /\ access_token.k = "str"

\* C24 as stated: when the refresh request fails, refresh_auth_token()
\* surfaces the failure to its caller as an error, distinguishable from the
\* outcome of a successful refresh.
C24_FailedRefreshRaises ==
    RefreshFailed(last_op) => last_op.err # "none"

\* C25 as stated: in every reachable state the held salts are either unset
\* or a sequence of exactly five integers.
C25_FiveSaltsOrUnset ==
    Falsy(salts) \/ (salts.k = "list" /\ Len(salts.s) = 5
                        /\ \A i \in 1..5 : salts.s[i] \in Int)


(***************************************************************************)
(* Properties of the parser's construction (LoadSpec).                     *)
(***************************************************************************)
\* C26 as stated: constructing the token parser fails when the transform
\* module cannot be loaded or when any of cdx, rdx, bdx, ndx, mdx is absent
\* from it; a missing function is never first detected by a later
\* parse_token_response call.
C26_MissingFunctionFailsConstruction ==
    /\ token_parser.state = "built" =>
          (wasm_file.loadable /\ TransformNames \subseteq wasm_file.exports)
    /\ parse_pc = "done" => parse_ret.err # "ExportError"


(***************************************************************************)
(* Properties of the cache (CacheSpec).                                    *)
(***************************************************************************)
SummaryRequests(op) == {i \in 1..Len(op.sent) : op.sent[i].ep = "market-summary"}
SummaryEntry == cache.entries["market_summary"]

\* C27: on a cache-enabled session, a get_market_summary() call that returns
\* stores what it returns for the time-to-live, and the next call of
\* get_market_summary(), made before that time has elapsed, sends no request
\* and returns the value the first call returned: the two calls issue one
\* request when the first call found no live entry, none otherwise.
C27_SecondCallFromCache ==
    [][/\ (cache.enabled /\ last_op'.op = "get_market_summary" /\ ticks' = ticks
              /\ last_op'.err = "none") =>
             /\ SummaryEntry'.present /\ SummaryEntry'.value = last_op'.body
             /\ SummaryRequests(last_op') # {} =>
                   SummaryEntry'.expires_at = Now + DefaultTtl
       /\ (cache.enabled /\ last_op.op = "get_market_summary" /\ last_op.err = "none"
              /\ last_op'.op = "get_market_summary" /\ ticks' = ticks
              /\ Now < SummaryEntry.expires_at) =>
             /\ last_op'.err = "none"
             /\ SummaryRequests(last_op') = {}
             /\ Cardinality(SummaryRequests(last_op)) <= 1
             /\ last_op'.body = last_op.body]_vars

C27_Witness ==
    /\ cache.enabled
    /\ last_op.op = "get_market_summary"
    /\ last_op.err = "none"
    /\ last_op.sent = <<>>
    /\ last_op.body.id = JInt(23)
    /\ SummaryEntry.present /\ Now < SummaryEntry.expires_at

\* C35: CacheManager.get never returns a value whose expiry time has been
\* reached.  An entry set at time t with time-to-live d expires at t + d; a
\* get_market_summary() call that reads the cache returns the entry's value
\* without a request while the clock is before that time; from then on the
\* read returns nothing and removes the entry: the call sends a request,
\* and the cache holds afterwards no entry (the request failed) or the
\* entry set by this call.
C35_ExpiredNeverReturned ==
    [][(cache.enabled /\ last_op'.op = "get_market_summary" /\ ticks' = ticks
           /\ SummaryEntry.present) =>
          /\ Now < SummaryEntry.expires_at =>
                /\ last_op'.sent = <<>>
                /\ last_op'.body = SummaryEntry.value
                /\ SummaryEntry' = SummaryEntry
          /\ Now >= SummaryEntry.expires_at =>
                /\ last_op'.sent # <<>>
                /\ last_op'.err # "none" => SummaryEntry' = NoEntry
                /\ last_op'.err = "none" =>
                      /\ SummaryEntry'.value = last_op'.body
                      /\ SummaryEntry'.expires_at = Now + DefaultTtl]_vars

C35_Witness ==
    /\ cache.enabled
    /\ ticks = 1
    /\ last_op.op = "get_market_summary"
    /\ last_op.err = "none"
    /\ SummaryRequests(last_op) # {}
    /\ SummaryEntry.present
    /\ SummaryEntry.value = last_op.body
    /\ SummaryEntry.expires_at = Now

CachedOps == {"get_market_summary", "get_market_status"}

\* C38: a fetch that fails never writes to the cache.  After a failed call
\* of a cached endpoint every entry the cache holds is an entry it held
\* before the call, and the next call of the endpoint sends a request
\* instead of answering from the cache.
C38_FailedFetchWritesNothing ==
    [][/\ (cache.enabled /\ last_op'.op \in CachedOps /\ ticks' = ticks
              /\ last_op'.err # "none") =>
             \A k \in CacheKeys :
                cache'.entries[k].present => cache'.entries[k] = cache.entries[k]
       /\ (cache.enabled /\ last_op.op = "get_market_summary" /\ last_op.err # "none"
              /\ last_op'.op = "get_market_summary" /\ ticks' = ticks) =>
             last_op'.sent # <<>>]_vars

C38_Witness ==
    /\ cache.enabled
    /\ ticks = 0
    /\ last_op.op = "get_market_summary"
    /\ last_op.err = "HTTPError"
    /\ SummaryRequests(last_op) # {}
    /\ ~SummaryEntry.present


Authenticating == {t \in Tasks : tasks[t].pc = "auth_wait" /\ tasks[t].op = "fetch"}

\* C29: the client provides no single-flight guarantee: a task that calls a
\* fetch operation while the client holds no access token issues its own
\* authenticate(), whether or not the authenticate() of another task is in
\* flight; two tasks that share an unauthenticated client can therefore
\* each issue one.
C29_NoSingleFlight ==
    [][\A t \in Tasks :
          (tasks[t].pc = "idle" /\ tasks'[t].op = "fetch" /\ Falsy(access_token)) =>
             (tasks'[t].pc = "auth_wait" /\ tasks'[t].auths = 1)]_vars

C29_Witness ==
    /\ Falsy(access_token)
    /\ Authenticating = Tasks
    /\ \A t \in Tasks : tasks[t].auths = 1

\* C30: under any interleaving of the tasks, the access token and the salts
\* the client holds come from the same authentication response (or none is
\* held), and a fetch sends a token that the client held with its salts.
C30_TokenAndSaltsFromOneResponse ==
    /\ \/ access_token = JNull /\ salts = JNull
       \/ \E r \in AuthenticatedTokens :
             access_token = JStr(r.access_token) /\ salts = JList(r.salts)
    /\ \A t \in Tasks :
          tasks[t].pc = "fetch_wait" =>
             \E r \in AuthenticatedTokens : tasks[t].hdr = JStr(r.access_token)

C30_Witness ==
    /\ \E t \in Tasks : tasks[t].pc = "auth_wait"
    /\ \E t \in Tasks : tasks[t].pc = "fetch_wait" /\ tasks[t].hdr # access_token
    /\ access_token = JStr(parse_token_response(AuthBodyOf("b2")).access_token)
    /\ salts = JList(parse_token_response(AuthBodyOf("b2")).salts)


(***************************************************************************)
(* Properties of get_today_price and its cache (TodaySpec).                *)
(***************************************************************************)
\* C31 as stated: a fetch operation called with use_cache=False neither
\* reads nor writes the cache: apart from the market_status entry of a
\* nested market-status lookup, every cache entry after the call is the
\* entry before it.
C31_UncachedCallLeavesCache ==
    [][(last_op'.op = "get_today_price(use_cache=False)" /\ ticks' = ticks) =>
          \A k \in CacheKeys \ {"market_status"} :
             cache'.entries[k] = cache.entries[k]]_vars

\* C32 as stated: every get_today_price call returns a list, whatever the
\* server answered and whatever the cache holds.
C32_ReturnsList ==
    last_op.op \in {"get_today_price", "get_today_price(use_cache=False)"} =>
       IsList(last_op.body)


(***************************************************************************)
(* Properties of the page loop of get_floorsheet (PageSpec, PageLiveSpec). *)
(***************************************************************************)
\* The rows of the n pages from page from on, in page order.
RECURSIVE pages_content(_, _)
pages_content(from, n) ==
    IF n = 0 THEN <<>> ELSE page_content(from) \o pages_content(from + 1, n - 1)

\* seq lists the page numbers from, from + 1, ...
Consecutive(seq, from) == \A i \in 1..Len(seq) : seq[i] = from + i - 1

\* C33: get_floorsheet requests at most limit pages when limit > 0; a limit
\* that is not given counts as 1 page for a call without a symbol and as no
\* limit for a call with a symbol (the limit never ends its loop); the list
\* returned is the content of the pages fetched, concatenated in page order.
C33_LimitAndConcatenation ==
    /\ (loop.arg_limit # JNull /\ loop.arg_limit.v > 0) =>
          Len(loop.requested) <= loop.arg_limit.v
    /\ (loop.arg_limit = JNull /\ ~loop.symbol) => Len(loop.requested) <= 1
    /\ (loop.arg_limit = JNull /\ loop.symbol) => loop.ended # "limit"
    /\ Consecutive(loop.requested, loop.start)
    /\ loop.fetched <= Len(loop.requested)
    /\ loop.records = pages_content(loop.start, loop.fetched)
    /\ loop.pc = "returned" => loop.returned = loop.records

C33_Witness ==
    /\ loop.pc = "returned"
    /\ loop.arg_limit = JInt(2)
    /\ loop.total = 3
    /\ loop.requested = <<0, 1>>
    /\ loop.returned = <<1, 2, 3, 4>>

\* C37: while the server answers every request and reports a totalPages
\* that does not change, get_floorsheet returns for every limit, 0 (all
\* pages) included: each request asks for the page after the one before, no
\* request follows one for a page at or after totalPages - 1, an empty page
\* or a failed request, and every loop that runs ends in a return.
C37_LoopTerminates ==
    /\ [](/\ Consecutive(loop.requested, loop.start)
          /\ \A i \in 1..(Len(loop.requested) - 1) :
                loop.requested[i] < loop.total - 1
          /\ loop.pc = "request" =>
                /\ loop.ended = "none"
                /\ loop.page = loop.start + Len(loop.requested)
                /\ loop.requested # <<>> => loop.page <= loop.total - 1)
    /\ (loop.pc = "request" ~> loop.pc = "returned")

C37_Witness ==
    /\ loop.pc = "returned"
    /\ loop.arg_limit = JInt(0)
    /\ loop.total = 3
    /\ loop.requested = <<0, 1, 2>>
    /\ loop.ended = "last_page"

\* C39: when a page request fails in the middle of a pagination, the call
\* requests no further page and returns the records of the pages fetched
\* before the failure.
C39_FailureKeepsFetchedPages ==
    loop.ended = "fail" =>
       /\ loop.pc \in {"break", "returned"}
       /\ Len(loop.requested) = loop.fetched + 1
       /\ loop.records = pages_content(loop.start, loop.fetched)
       /\ loop.pc = "returned" => loop.returned = loop.records

C39_Witness ==
    /\ loop.pc = "returned"
    /\ loop.ended = "fail"
    /\ loop.requested = <<0, 1, 2>>
    /\ loop.returned = <<1, 2, 3, 4>>


(***************************************************************************)
(* Properties of the age of the token (Spec).                              *)
(***************************************************************************)
\* C36: the age of the token never triggers an authentication.  Once the
\* session holds a non-empty access token and non-empty salts, an operation
\* other than an explicit authenticate() or refresh_auth_token() makes no
\* authenticate() call and sends no refresh-token request, however long ago
\* the token was issued and whatever the server answers, and it leaves the
\* access token and its timestamp as they were.
C36_AgeNeverAuthenticates ==
    [][(~Falsy(access_token) /\ ~Falsy(salts) /\ ticks' = ticks
           /\ last_op'.op \notin {"authenticate", "refresh_auth_token"}) =>
          /\ last_op'.auths = 0
          /\ last_op'.by = <<>>
          /\ RefreshRequests(last_op') = {}
          /\ access_token' = access_token
          /\ token_timestamp' = token_timestamp]_vars

C36_Witness ==
    /\ ~Falsy(access_token) /\ ~Falsy(salts)
    /\ ticks = MaxTicks
    /\ token_timestamp = 0
    /\ last_op.op = "get_market_status"
    /\ last_op.err = "HTTPError"
    /\ last_op.sent # <<>>
    /\ last_op.auths = 0
====
